---- MODULE Spec2Model ----
(***************************************************************************)
(* Label encoding of the harmonica chord/note training pipeline.           *)
(*                                                                         *)
(* model_evaluation.process_labels turns a list of raw labels into a       *)
(* one-hot matrix (one class index per row); model_training.process_labels *)
(* turns the same list into a multi-hot matrix.  Both are modelled as the  *)
(* code computes them, character by character.  A Python str is a sequence *)
(* of one-character strings; a raised exception is a result of its own.    *)
(***************************************************************************)
EXTENDS Integers, Sequences, FiniteSets, TLC

\* Bounds of the model
MaxLen == 3
MaxParts == 3
MaxList == 4

\* Module constants of model_evaluation.py / model_training.py
NUM_CLASSES == 96
OCTAVE_RANGE == 8
NOTE_NAMES ==
  << <<"C">>, <<"C","#">>, <<"D">>, <<"D","#">>, <<"E">>, <<"F">>,
     <<"F","#">>, <<"G">>, <<"G","#">>, <<"A">>, <<"A","#">>, <<"B">> >>

----------------------------------------------------------------------------
\* Python str primitives over one-character strings

\* the literal 'ABCDEFG' of `part[0] in 'ABCDEFG'` and the startswith tuple
NoteLetters == {"A", "B", "C", "D", "E", "F", "G"}

\* characters c with c.isalpha() among the characters the model draws from
AlphaChars == NoteLetters \cup {"H", "a", "b", "d", "i", "j", "k", "m", "n",
                                "o", "s", "u", "w"}

\* two characters outside ASCII, written by their code points: SUPERSCRIPT
\* TWO, for which isdigit() is True and int() raises ValueError, and
\* ARABIC-INDIC DIGIT THREE, for which isdigit() is True and int() is 3
SuperscriptTwo == "U+00B2"

ArabicIndicThree == "U+0663"

\* characters c with c.isdigit() among the characters the model draws from
DigitChars ==
  {"0", "1", "2", "3", "4", "5", "6", "7", "8", "9",
   SuperscriptTwo, ArabicIndicThree}

isalpha(c) == c \in AlphaChars

isdigit(c) == c \in DigitChars

\* int(c) raises ValueError: c is a digit that is not a decimal
int_raises(c) == c = SuperscriptTwo

\* int(c) for a one-character decimal string
int(c) ==
  CASE c = "0" -> 0 [] c = "1" -> 1 [] c = "2" -> 2 [] c = "3" -> 3
    [] c = "4" -> 4 [] c = "5" -> 5 [] c = "6" -> 6 [] c = "7" -> 7
    [] c = "8" -> 8 [] c = "9" -> 9 [] c = ArabicIndicThree -> 3

\* str(n) for a natural number, as a sequence of characters
RECURSIVE str(_)
str(n) ==
  LET d == <<"0", "1", "2", "3", "4", "5", "6", "7", "8", "9">>
  IN IF n < 10 THEN << d[n + 1] >> ELSE str(n \div 10) \o << d[(n % 10) + 1] >>

\* '-' in label
contains(s, c) == \E i \in 1..Len(s) : s[i] = c

\* label.split('-'): always at least one part, parts may be empty
RECURSIVE split(_, _)
split(s, sep) ==
  IF ~contains(s, sep) THEN << s >>
  ELSE LET k == CHOOSE i \in 1..Len(s) :
                  s[i] = sep /\ \A j \in 1..(i - 1) : s[j] # sep
       IN << SubSeq(s, 1, k - 1) >> \o split(SubSeq(s, k + 1, Len(s)), sep)

\* all(part[0] in 'ABCDEFG' for part in parts): the generator is consumed
\* left to right and stops at the first False; part[0] of an empty part
\* raises IndexError
RECURSIVE all_parts_start_with_note(_)
all_parts_start_with_note(parts) ==
  IF parts = << >> THEN "True"
  ELSE IF Head(parts) = << >> THEN "IndexError"
  ELSE IF Head(parts)[1] \notin NoteLetters THEN "False"
  ELSE all_parts_start_with_note(Tail(parts))

\* label.startswith(('C', 'D', 'E', 'F', 'G', 'A', 'B'))
startswith_note(s) == Len(s) >= 1 /\ s[1] \in NoteLetters

\* the clamp with the upper bound forgotten: max(0, octave)
clamp_octave_no_upper(octave) == IF octave > 0 THEN octave ELSE 0

\* max(0, min(octave, OCTAVE_RANGE - 1))
clamp_octave(octave) ==
  LET lo == IF octave < OCTAVE_RANGE - 1 THEN octave ELSE OCTAVE_RANGE - 1
  IN IF lo > 0 THEN lo ELSE 0

\* Op applied to the value of x, the value being computed once however often
\* Op uses it
WithValue(x, Op(_)) == CHOOSE r \in {Op(y) : y \in {x}} : TRUE

\* the loop without its break: the last digit found wins
first_digit_last(octave, s, from) ==
  LET found == {i \in from..Len(s) : isdigit(s[i])}
  IN IF found = {} THEN octave
     ELSE int(s[CHOOSE i \in found : \A j \in found : j <= i])

\* the octave loop raises ValueError: the first digit it meets is one int()
\* does not convert
RECURSIVE first_digit_raises(_, _)
first_digit_raises(s, from) ==
  IF from > Len(s) THEN FALSE
  ELSE IF isdigit(s[from]) THEN int_raises(s[from])
  ELSE first_digit_raises(s, from + 1)

\* for i in range(start, len(s)): if s[i].isdigit(): octave = int(s[i]); break
\* the value of octave after the loop, octave being its value before it; from
\* is the 1-based position of s[start]
RECURSIVE first_digit(_, _, _)
first_digit(octave, s, from) ==
  IF from > Len(s) THEN octave
  ELSE IF isdigit(s[from]) THEN int(s[from])
  ELSE first_digit(octave, s, from + 1)

----------------------------------------------------------------------------
\* Labels.  A raw label is a str, a dict (with or without a 'key' entry) or
\* a value of any other type (None, a number).

StrLabel(s) == [type |-> "str", str |-> s, has_key |-> FALSE, key |-> << >>]

DictLabel(k) == [type |-> "dict", str |-> << >>, has_key |-> TRUE, key |-> k]

EmptyDictLabel == [type |-> "dict", str |-> << >>, has_key |-> FALSE, key |-> << >>]

OtherLabel == [type |-> "other", str |-> << >>, has_key |-> FALSE, key |-> << >>]

unknown == <<"u", "n", "k", "n", "o", "w", "n">>

\* key_map of both encoders (the same literal in both files)
key_map ==
  (<<"C">> :> 0) @@ (<<"C","#">> :> 1) @@ (<<"D","b">> :> 1) @@ (<<"D">> :> 2) @@
  (<<"D","#">> :> 3) @@ (<<"E","b">> :> 3) @@ (<<"E">> :> 4) @@ (<<"F">> :> 5) @@
  (<<"F","#">> :> 6) @@ (<<"G","b">> :> 6) @@ (<<"G">> :> 7) @@ (<<"G","#">> :> 8) @@
  (<<"A","b">> :> 8) @@ (<<"A">> :> 9) @@ (<<"A","#">> :> 10) @@ (<<"B","b">> :> 10) @@
  (<<"B">> :> 11)

\* the value a local variable of process_labels has in the model while its
\* name is not bound
Unbound == -1

----------------------------------------------------------------------------
\* model_evaluation.process_labels (one-hot).  The for loop over labels_list
\* runs in one function frame: processed_labels grows by one entry per
\* iteration, and the local variables octave, has_sharp_or_flat, semitone
\* and class_index keep the value of the last statement that assigned them
\* from one iteration to the next.

\* note_map of the evaluation encoder: natural letters only
eval_note_map ==
  ("C" :> 0) @@ ("D" :> 2) @@ ("E" :> 4) @@ ("F" :> 5) @@ ("G" :> 7) @@
  ("A" :> 9) @@ ("B" :> 11)

\* the local variables when process_labels is entered
eval_unbound ==
  [octave |-> Unbound, has_sharp_or_flat |-> FALSE, semitone |-> Unbound,
   class_index |-> Unbound]

\* the accidental test looking at the one character s[from] only
sharp_or_flat_next_only(s, from) ==
  IF from <= Len(s) /\ s[from] \in {"#", "b"} THEN s[from] ELSE ""

\* the accidental loop: the first character after the letter that is '#' or
\* 'b', or "" when the loop ends without meeting one
RECURSIVE sharp_or_flat(_, _)
sharp_or_flat(s, from) ==
  IF from > Len(s) THEN ""
  ELSE IF s[from] \in {"#", "b"} THEN s[from]
  ELSE sharp_or_flat(s, from + 1)

\* octave = 4, the digit loop from the second character of the token, and
\* octave = max(0, min(octave, OCTAVE_RANGE - 1))
eval_octave(locals, s) ==
  LET defaulted == [locals EXCEPT !.octave = 4]
      looped == [defaulted EXCEPT !.octave = first_digit(@, s, 2)]
  IN [looped EXCEPT !.octave = clamp_octave(@)]

\* has_sharp_or_flat = False, the accidental loop, and
\* if not has_sharp_or_flat: semitone = note_map[root_note], for a token whose
\* first character is a key of note_map
eval_semitone(locals, s) ==
  LET cleared == [locals EXCEPT !.has_sharp_or_flat = FALSE]
      looped ==
        IF sharp_or_flat(s, 2) = "#"
        THEN [cleared EXCEPT !.has_sharp_or_flat = TRUE,
                             !.semitone = (eval_note_map[s[1]] + 1) % 12]
        ELSE IF sharp_or_flat(s, 2) = "b"
        THEN [cleared EXCEPT !.has_sharp_or_flat = TRUE,
                             !.semitone = (eval_note_map[s[1]] - 1) % 12]
        ELSE cleared
  IN WithValue(looped,
       LAMBDA l : IF l.has_sharp_or_flat THEN l
                  ELSE [l EXCEPT !.semitone = eval_note_map[s[1]]])

\* the class index with the octave term left out
eval_class_index_semitone_only(locals) == locals.semitone

\* class_index = semitone + (octave * 12)
eval_class_index(locals) == locals.semitone + (locals.octave * 12)

\* the statements shared by the chord branch (on first_note) and the note
\* branch (on label): the local variables after them and the value appended
\* to processed_labels
eval_note(locals, s) ==
  WithValue(eval_octave(locals, s),
    LAMBDA octaved :
      IF s[1] \in DOMAIN eval_note_map
      THEN WithValue(eval_semitone(octaved, s),
             LAMBDA toned :
               WithValue([toned EXCEPT !.class_index = eval_class_index(toned)],
                 LAMBDA indexed : [exc |-> "none", locals |-> indexed,
                                   class_index |-> indexed.class_index]))
      ELSE [exc |-> "none", locals |-> octaved, class_index |-> 48])

\* an iteration ended by an exception
eval_raised(locals, exc) ==
  [exc |-> exc, locals |-> locals, class_index |-> 0]

\* the root taken from the wrong end of the chord
first_note_last(parts) == parts[Len(parts)]

\* first_note = label.split('-')[0]
first_note(parts) == parts[1]

\* one iteration of the loop over labels_list, entered with the local
\* variables as the iteration before left them: the value appended to
\* processed_labels and the local variables after it, or the exception that
\* ends the call
eval_iteration(locals, label) ==
  IF label.type = "dict" THEN
    IF label.has_key /\ label.key # unknown THEN
      IF label.key \in DOMAIN key_map
      THEN [exc |-> "none", locals |-> locals,
            class_index |-> key_map[label.key]]
      ELSE [exc |-> "none", locals |-> locals, class_index |-> 0]
    ELSE [exc |-> "none", locals |-> locals, class_index |-> 0]
  ELSE IF label.type = "str" THEN
    LET s == label.str
        parts == split(s, "-")
        chord == IF contains(s, "-") THEN all_parts_start_with_note(parts)
                 ELSE "False"
    IN IF chord = "IndexError" THEN eval_raised(locals, "IndexError")
       ELSE IF chord = "True"
         THEN IF first_digit_raises(first_note(parts), 2)
              THEN eval_raised(locals, "ValueError")
              ELSE eval_note(locals, first_note(parts))
       ELSE IF startswith_note(s)
         THEN IF first_digit_raises(s, 2)
              THEN eval_raised(locals, "ValueError")
              ELSE eval_note(locals, s)
       ELSE [exc |-> "none", locals |-> locals, class_index |-> 48]
  ELSE [exc |-> "none", locals |-> locals, class_index |-> 48]

\* the first iteration of a call: what a label appends when it is the first
\* of its list
eval_label(label) ==
  WithValue(eval_iteration(eval_unbound, label),
    LAMBDA r : [exc |-> r.exc, class_index |-> r.class_index])

\* tf.keras.utils.to_categorical(processed_labels, num_classes=NUM_CLASSES)
to_categorical(y) ==
  [i \in 1..Len(y) |->
     [c \in 0..(NUM_CLASSES - 1) |-> IF c = y[i] THEN 1 ELSE 0]]

\* the frame of process_labels before the loop: processed_labels = []
eval_start ==
  [next |-> 1, processed_labels |-> << >>, locals |-> eval_unbound,
   exc |-> "none"]

\* for label in labels_list: the frame after the loop, next being the
\* position of the label of the coming iteration
RECURSIVE eval_loop(_, _)
eval_loop(frame, labels) ==
  IF frame.exc # "none" \/ frame.next > Len(labels) THEN frame
  ELSE WithValue(eval_iteration(frame.locals, labels[frame.next]),
         LAMBDA r :
           WithValue([next |-> frame.next + 1,
                      processed_labels |->
                        IF r.exc = "none"
                        THEN Append(frame.processed_labels, r.class_index)
                        ELSE frame.processed_labels,
                      locals |-> r.locals,
                      exc |-> r.exc],
             LAMBDA after : eval_loop(after, labels)))

\* the whole call: the first raising label ends it
eval_process_labels(labels) ==
  WithValue(eval_loop(eval_start, labels),
    LAMBDA frame :
      IF frame.exc # "none"
      THEN [status |-> "raised", exc |-> frame.exc,
            processed_labels |-> << >>, one_hot_labels |-> << >>]
      ELSE [status |-> "returned", exc |-> "none",
            processed_labels |-> frame.processed_labels,
            one_hot_labels |-> to_categorical(frame.processed_labels)])

----------------------------------------------------------------------------
\* model_training.process_labels (multi-hot).  The matrix is allocated before
\* the loop; iteration i writes into row i; the local variables note_name,
\* octave, semitone, class_index and key_semitone keep the value of the last
\* statement that assigned them from one iteration to the next.

\* note_map of the training encoder: sharps and flat aliases
note_map == key_map

\* np.zeros(NUM_CLASSES), one row
zeros == [c \in 0..(NUM_CLASSES - 1) |-> 0]

\* the assignment written as an accumulation: multi_hot_labels[i, k] += 1.0
set_one_accumulate(row, class_index) == [row EXCEPT ![class_index] = @ + 1]

\* multi_hot_labels[i, class_index] = 1.0
set_one(row, class_index) == [row EXCEPT ![class_index] = 1]

\* the frame of process_labels before the loop:
\* multi_hot_labels = np.zeros((len(labels_list), NUM_CLASSES)), no local
\* bound; i is the position of the label of the coming iteration
train_start(labels) ==
  [i |-> 1, multi_hot_labels |-> [k \in 1..Len(labels) |-> zeros],
   note_name |-> << >>, octave |-> Unbound, semitone |-> Unbound,
   class_index |-> Unbound, key_semitone |-> Unbound, exc |-> "none"]

\* the characters the note_name loop appends: the longest prefix of letters,
\* '#' and 'b'
RECURSIVE note_name(_)
note_name(s) ==
  IF s = << >> THEN << >>
  ELSE IF isalpha(Head(s)) \/ Head(s) \in {"#", "b"}
    THEN << Head(s) >> \o note_name(Tail(s))
  ELSE << >>

\* the octave loop of a token raises ValueError
train_octave_raises(s) == first_digit_raises(s, Len(note_name(s)) + 1)

\* multi_hot_labels[i, class_index] = 1.0 in the frame
assign_one(frame, class_index) ==
  [frame EXCEPT !.multi_hot_labels[frame.i] = set_one(@, class_index)]

\* the statements for one note string with the assignment octave = 4 left
\* out: a string without a digit keeps the octave of the note before it
train_note_octave_kept(frame, s) ==
  LET named == [frame EXCEPT !.note_name = << >> \o note_name(s)]
      looped ==
        [named EXCEPT
           !.octave = first_digit(@, s, Len(named.note_name) + 1)]
      clamped == [looped EXCEPT !.octave = clamp_octave(@)]
  IN WithValue(clamped,
       LAMBDA c :
         IF c.note_name \in DOMAIN note_map
         THEN WithValue([c EXCEPT !.semitone = note_map[c.note_name]],
                LAMBDA mapped :
                  WithValue([mapped EXCEPT
                               !.class_index =
                                  mapped.semitone + (mapped.octave * 12)],
                    LAMBDA indexed : assign_one(indexed, indexed.class_index)))
         ELSE assign_one(c, 48))

\* the statements for one note string (note_str of a chord, or label):
\* note_name = '' and its loop, octave = 4 and its loop from position
\* len(note_name), the clamp, and the class index set in row i:
\* semitone + (octave * 12), or 48 when note_name is not a key of note_map
train_note(frame, s) ==
  LET named == [frame EXCEPT !.note_name = << >> \o note_name(s)]
      defaulted == [named EXCEPT !.octave = 4]
      looped ==
        [defaulted EXCEPT
           !.octave = first_digit(@, s, Len(named.note_name) + 1)]
      clamped == [looped EXCEPT !.octave = clamp_octave(@)]
  IN WithValue(clamped,
       LAMBDA c :
         IF c.note_name \in DOMAIN note_map
         THEN WithValue([c EXCEPT !.semitone = note_map[c.note_name]],
                LAMBDA mapped :
                  WithValue([mapped EXCEPT
                               !.class_index =
                                  mapped.semitone + (mapped.octave * 12)],
                    LAMBDA indexed : assign_one(indexed, indexed.class_index)))
         ELSE assign_one(c, 48))

\* the chord reduced to its first note, as the one-hot encoder does
train_chord_row_root_only(frame, parts) == train_note(frame, Head(parts))

\* for note_str in label.split('-'): set the index of each note
RECURSIVE train_chord_row(_, _)
train_chord_row(frame, parts) ==
  IF parts = << >> THEN frame
  ELSE WithValue(train_note(frame, Head(parts)),
         LAMBDA noted : train_chord_row(noted, Tail(parts)))

\* the key marked in the middle octave only
key_row_middle_octave(row, semitone) == set_one(row, semitone + 48)

\* for octave in range(OCTAVE_RANGE): multi_hot_labels[i, s + octave * 12] = 1.0
key_row(row, semitone) ==
  [c \in 0..(NUM_CLASSES - 1) |->
     IF \E octave \in 0..(OCTAVE_RANGE - 1) : c = semitone + (octave * 12)
     THEN 1 ELSE row[c]]

\* key_semitone = key_map[label['key']] and the loop over the octaves, which
\* leaves octave and class_index at the values of its last pass
train_key(frame, key) ==
  WithValue([frame EXCEPT !.key_semitone = key_map[key]],
    LAMBDA keyed :
      [keyed EXCEPT
         !.octave = OCTAVE_RANGE - 1,
         !.class_index = keyed.key_semitone + ((OCTAVE_RANGE - 1) * 12),
         !.multi_hot_labels[keyed.i] = key_row(@, keyed.key_semitone)])

\* for octave in range(OCTAVE_RANGE): multi_hot_labels[i, octave * 12] = 1.0
train_default_key(frame) ==
  [frame EXCEPT !.octave = OCTAVE_RANGE - 1,
                !.multi_hot_labels[frame.i] = key_row(@, 0)]

\* one iteration of the loop over labels_list, entered with the frame as
\* the iteration before left it: the frame after it, with row i filled, or
\* with the exception that ends the call
train_iteration(frame, label) ==
  IF label.type = "dict" THEN
    IF label.has_key /\ label.key # unknown THEN
      IF label.key \in DOMAIN key_map
      THEN train_key(frame, label.key)
      ELSE train_default_key(frame)
    ELSE train_default_key(frame)
  ELSE IF label.type = "str" THEN
    LET s == label.str
        parts == split(s, "-")
        chord == IF contains(s, "-") THEN all_parts_start_with_note(parts)
                 ELSE "False"
    IN IF chord = "IndexError" THEN [frame EXCEPT !.exc = "IndexError"]
       ELSE IF chord = "True"
         THEN IF \E k \in 1..Len(parts) : train_octave_raises(parts[k])
              THEN [frame EXCEPT !.exc = "ValueError"]
              ELSE train_chord_row(frame, parts)
       ELSE IF startswith_note(s)
         THEN IF train_octave_raises(s)
              THEN [frame EXCEPT !.exc = "ValueError"]
              ELSE train_note(frame, s)
       ELSE assign_one(frame, 48)
  ELSE assign_one(frame, 48)

\* the first iteration of a call on the list of this one label: row 0 of the
\* matrix after it, or the exception
train_label(label) ==
  WithValue(train_iteration(train_start(<< label >>), label),
    LAMBDA r : [exc |-> r.exc,
                row |-> IF r.exc = "none" THEN r.multi_hot_labels[1]
                        ELSE zeros])

\* for i, label in enumerate(labels_list): the frame after the loop
RECURSIVE train_loop(_, _)
train_loop(frame, labels) ==
  IF frame.exc # "none" \/ frame.i > Len(labels) THEN frame
  ELSE WithValue(train_iteration(frame, labels[frame.i]),
         LAMBDA r :
           WithValue([r EXCEPT !.i = r.i + 1],
             LAMBDA after : train_loop(after, labels)))

\* the whole call: the first raising label ends it
train_process_labels(labels) ==
  WithValue(train_loop(train_start(labels), labels),
    LAMBDA frame :
      IF frame.exc # "none"
      THEN [status |-> "raised", exc |-> frame.exc, multi_hot_labels |-> << >>]
      ELSE [status |-> "returned", exc |-> "none",
            multi_hot_labels |-> frame.multi_hot_labels])

----------------------------------------------------------------------------
\* model_evaluation.predict_audio_file: class index back to a note name

\* np.max(v)
np_max(v) ==
  LET values == {v[i] : i \in DOMAIN v}
  IN CHOOSE x \in values : \A y \in values : y <= x

\* np.argmax(prediction[0]): the first index holding the maximum
np_argmax(v) ==
  LET m == np_max(v)
  IN CHOOSE i \in DOMAIN v : v[i] = m /\ \A j \in DOMAIN v : j < i => v[j] < m

\* the decoding with // and % exchanged
predicted_note_swapped(predicted_class) ==
  LET octave == predicted_class % 12
      semitone == predicted_class \div 12
  IN NOTE_NAMES[semitone + 1] \o str(octave)

\* f"{note_names[semitone]}{octave}" with octave = predicted_class // 12 and
\* semitone = predicted_class % 12
predicted_note(predicted_class) ==
  LET octave == predicted_class \div 12
      semitone == predicted_class % 12
  IN NOTE_NAMES[semitone + 1] \o str(octave)

----------------------------------------------------------------------------
\* improved_chord_model: the notes improved_chord_focused_loss weighs higher

A_MAJOR_MIDI_NOTES == <<57, 61, 64, 69>>

C_MAJOR_MIDI_NOTES == <<60, 64, 67>>

\* the mask built by the loop over the notes: index note is set when
\* note < NUM_CLASSES
chord_notes_mask(notes) ==
  {c \in 0..(NUM_CLASSES - 1) :
     \E k \in 1..Len(notes) : notes[k] < NUM_CLASSES /\ notes[k] = c}

a_major_mask == chord_notes_mask(A_MAJOR_MIDI_NOTES)

c_major_mask == chord_notes_mask(C_MAJOR_MIDI_NOTES)

----------------------------------------------------------------------------
\* Inputs: the raw labels the encoders are run on

\* characters of the free-form strings
RawChars == {"C", "H", "m", "b", "#", "4", "9", "-"}

\* every string of at most n characters
Strings(n) == UNION {[1..k -> RawChars] : k \in 0..n}

\* a letter, an optional accidental, an optional octave digit
Accidentals == {<< >>, <<"#">>, <<"b">>}

OctaveDigits == {<< >>} \cup {<<d>> : d \in DigitChars}

NoteTokens == {<<l>> \o a \o d : l \in NoteLetters, a \in Accidentals, d \in OctaveDigits}

\* the canonical pitch names followed by one octave digit 0..7
CanonicalTokens ==
  {NOTE_NAMES[k] \o str(o) : k \in 1..12, o \in 0..(OCTAVE_RANGE - 1)}

\* legacy chord names: a root and a quality suffix
Qualities == {<<"m">>, <<"m","a","j">>, <<"d","i","m">>, <<"7">>,
              <<"m","a","j","7">>, <<"m","7","b","5">>, <<"s","u","s","4">>}

LegacyTokens ==
  {<<l>> \o a \o q : l \in {"C", "G", "B"}, a \in Accidentals, q \in Qualities}

\* notes the chord labels are joined from
ChordParts ==
  { <<"C","4">>, <<"E","4">>, <<"G","4">>, <<"B","b","3">>, <<"C","b","4">>,
    <<"G">>, <<"C","9">> }

\* chord labels of the repository's tests
TestChords ==
  { <<"D","4","-","G","4">>, <<"D","6","-","G","6">>,
    <<"D","4","-","F","#","4","-","A","4">>,
    <<"C","5","-","E","5","-","G","5">> }

\* '-'.join(parts)
RECURSIVE join(_)
join(parts) ==
  IF Len(parts) = 1 THEN parts[1]
  ELSE parts[1] \o <<"-">> \o join(Tail(parts))

\* chord labels with an octave written in a digit outside ASCII
UnicodeChords ==
  { <<"C","4","-","E",SuperscriptTwo>>, <<"C",SuperscriptTwo,"-","E","4">>,
    <<"C",ArabicIndicThree,"-","E","4">>, <<"C","4","-","E",ArabicIndicThree>> }

ChordLabels == {join(ps) : ps \in UNION {[1..k -> ChordParts] : k \in 2..MaxParts}}

KeyValues == DOMAIN key_map \cup {unknown, <<"H">>, << >>, <<"C","b">>}

StrLabels ==
  {StrLabel(s) : s \in Strings(MaxLen) \cup NoteTokens \cup CanonicalTokens
                       \cup LegacyTokens \cup ChordLabels
                       \cup TestChords \cup UnicodeChords}

DictLabels == {DictLabel(k) : k \in KeyValues} \cup {EmptyDictLabel}

AllLabels == StrLabels \cup DictLabels \cup {OtherLabel}

\* labels of the repository's own test lists, for the multi-row calls
FixtureLabels ==
  { StrLabel(<<"C","4">>), StrLabel(<<"C","4","-","E","4","-","G","4">>),
    StrLabel(<<"D","4">>), StrLabel(<<"D","4","-","F","#","4","-","A","4">>) }

\* a key spelled with a flat next to the same key spelled with a sharp
KeyPairs ==
  { <<DictLabel(<<"D","b">>), DictLabel(<<"C","#">>)>>,
    <<DictLabel(<<"E","b">>), DictLabel(<<"D","#">>)>>,
    <<DictLabel(<<"G","b">>), DictLabel(<<"F","#">>)>>,
    <<DictLabel(<<"A","b">>), DictLabel(<<"G","#">>)>>,
    <<DictLabel(<<"B","b">>), DictLabel(<<"A","#">>)>> }

\* labels of different kinds, one of them raising, in lists of two
MixedLabels ==
  { StrLabel(<<"C","4">>), StrLabel(<<"C","4","-">>), StrLabel(<<"G","m","a","j">>),
    DictLabel(<<"G">>), OtherLabel }

\* the chords the chord-focused loss names in its comments: C4, E4, G4 and
\* A3, C#4, E4, A4
LossChords ==
  { <<"C","4","-","E","4","-","G","4">>,
    <<"A","3","-","C","#","4","-","E","4","-","A","4">> }

\* labels that leave different values in the local variables of
\* process_labels: a note in octave 6, a note without octave digit, a key
\* (whose loop over the octaves ends with octave 7), and a chord whose last
\* note has no octave digit
CarryLabels ==
  { StrLabel(<<"D","6">>), StrLabel(<<"G">>), DictLabel(<<"A">>),
    StrLabel(<<"C","#","2","-","E">>) }

LabelLists ==
  {<<l>> : l \in AllLabels}
    \cup UNION {[1..k -> FixtureLabels] : k \in 2..MaxList}
    \cup KeyPairs
    \cup [1..2 -> MixedLabels]
    \cup {<<StrLabel(c)>> : c \in LossChords}
    \cup UNION {[1..k -> CarryLabels] : k \in 2..3}

----------------------------------------------------------------------------
\* feature_extraction.get_label_from_path: the label of an audio file, read
\* from its path

\* s.startswith(prefix)
startswith(s, prefix) ==
  Len(s) >= Len(prefix) /\ SubSeq(s, 1, Len(prefix)) = prefix

\* s.endswith(suffix)
endswith(s, suffix) ==
  Len(s) >= Len(suffix) /\ SubSeq(s, Len(s) - Len(suffix) + 1, Len(s)) = suffix

\* sub in s, for a string sub
str_in(sub, s) ==
  \E i \in 1..(Len(s) - Len(sub) + 1) : SubSeq(s, i, i + Len(sub) - 1) = sub

\* s.isdigit(): not empty and digits only
str_isdigit(s) == s # << >> /\ \A i \in 1..Len(s) : isdigit(s[i])

\* s.replace(old, ''): every occurrence removed, left to right
RECURSIVE str_remove(_, _)
str_remove(s, old) ==
  IF s = << >> THEN << >>
  ELSE IF startswith(s, old) THEN str_remove(SubSeq(s, Len(old) + 1, Len(s)), old)
  ELSE << Head(s) >> \o str_remove(Tail(s), old)

\* p.rfind('/') + 1
last_slash(p) ==
  IF ~contains(p, "/") THEN 0
  ELSE CHOOSE i \in 1..Len(p) : p[i] = "/" /\ \A j \in (i + 1)..Len(p) : p[j] # "/"

\* os.path.basename(p)
basename(p) == SubSeq(p, last_slash(p) + 1, Len(p))

\* head.rstrip('/')
RECURSIVE rstrip_slash(_)
rstrip_slash(head) ==
  IF head # << >> /\ head[Len(head)] = "/"
  THEN rstrip_slash(SubSeq(head, 1, Len(head) - 1))
  ELSE head

\* os.path.dirname(p): the text up to the last '/', without trailing
\* slashes unless it consists of slashes only
dirname(p) ==
  LET head == SubSeq(p, 1, last_slash(p))
  IN IF head # << >> /\ (\E i \in 1..Len(head) : head[i] # "/")
     THEN rstrip_slash(head) ELSE head

wav == <<".", "w", "a", "v">>

\* if part.endswith('.wav'): part = part[:-4]
strip_wav(part) ==
  IF endswith(part, wav) THEN SubSeq(part, 1, Len(part) - 4) ELSE part

\* what a search loop over the parts of a name leaves: the part it returns
NotFound == [found |-> FALSE, part |-> << >>]

Found(part) == [found |-> TRUE, part |-> part]

\* the first loop with the test of the repository's test doubles: two or
\* more characters, the first a letter in 'ABCDEFG'
RECURSIVE note_pattern_part_letter_only(_)
note_pattern_part_letter_only(parts) ==
  IF parts = << >> THEN NotFound
  ELSE LET part == strip_wav(Head(parts))
       IN IF Len(part) >= 2 /\ part[1] \in NoteLetters
          THEN Found(part)
          ELSE note_pattern_part_letter_only(Tail(parts))

----------------------------------------------------------------------------
\* compare_tf_onnx_models: get_top_notes and compare_predictions.  A
\* prediction is an array of shape (1, NUM_CLASSES); prediction[0] is modelled
\* as a function from 0..95 to integer scores (confidences in a fixed unit),
\* and means and the correlation are kept as exact fractions.

\* np.argsort(prediction[0]) sorts with kind 'quicksort', which is not
\* stable: the order equal scores come out in is that of the sort the build
\* runs.  The sorts the model chooses from: numpy's generic quicksort
\* (an introsort on the index array: median of three, insertion sort on
\* short partitions, heapsort past the depth limit), a sort that keeps equal
\* scores in index order ("stable") and one that leaves them in reverse index
\* order ("reversed").  A sorted array is a function from the places
\* 0..size - 1 to indices.  The loops of the sorts are written as a number
\* of passes, the first half of them and then the rest, each pass leaving a
\* finished loop as it is.
TieOrders == {"quicksort", "stable", "reversed"}

\* the number of entries of a vector over 0..size - 1
size_of(v) == Cardinality(DOMAIN v)

\* partitions of at most this many places apart are sorted by insertion
SMALL_QUICKSORT == 16

\* npy_get_msb(unum): the number of times unum can be halved before it is 0,
\* less one
RECURSIVE npy_get_msb(_)
npy_get_msb(unum) == IF unum \div 2 = 0 THEN 0 ELSE 1 + npy_get_msb(unum \div 2)

\* INTP_SWAP(tosort[i], tosort[j])
intp_swap(tosort, i, j) == [tosort EXCEPT ![i] = tosort[j], ![j] = tosort[i]]

\* the three conditional swaps that put the median of v[*pl], v[*pm], v[*pr]
\* at pm
median_of_three(v, tosort, pl, pm, pr) ==
  LET first == IF v[tosort[pm]] < v[tosort[pl]]
               THEN intp_swap(tosort, pm, pl) ELSE tosort
      second == IF v[first[pr]] < v[first[pm]]
                THEN intp_swap(first, pr, pm) ELSE first
  IN IF v[second[pm]] < v[second[pl]]
     THEN intp_swap(second, pm, pl) ELSE second

\* do { ++pi; } while (v[*pi] < vp): the first place after pi whose score is
\* not below vp
scan_up(v, tosort, pi, vp) ==
  CHOOSE k \in (pi + 1)..(size_of(v) - 1) :
    /\ ~(v[tosort[k]] < vp)
    /\ \A j \in (pi + 1)..(k - 1) : v[tosort[j]] < vp

\* do { --pj; } while (vp < v[*pj]): the last place before pj whose score is
\* not above vp
scan_down(v, tosort, pj, vp) ==
  pj - (CHOOSE d \in 1..pj :
          /\ ~(vp < v[tosort[pj - d]])
          /\ \A e \in 1..(d - 1) : vp < v[tosort[pj - e]])

\* one pass of the for (;;) loop of a partition: both scans, then the break
\* when they have met and the swap otherwise
partition_pass(v, s, vp) ==
  LET up == scan_up(v, s.tosort, s.pi, vp)
      down == scan_down(v, s.tosort, s.pj, vp)
  IN IF up >= down
     THEN [tosort |-> s.tosort, pi |-> up, pj |-> down, broken |-> TRUE]
     ELSE [tosort |-> intp_swap(s.tosort, up, down), pi |-> up, pj |-> down,
           broken |-> FALSE]

\* the for (;;) loop of a partition, over once it has broken
RECURSIVE partition(_, _, _, _)
partition(v, s, vp, passes) ==
  IF s.broken \/ passes = 0 THEN s
  ELSE IF passes = 1 THEN partition_pass(v, s, vp)
  ELSE WithValue(partition(v, s, vp, passes \div 2),
                 LAMBDA half : partition(v, half, vp, passes - (passes \div 2)))

\* while (pj > pl && v[*pk] > vp) { *pj-- = *pk--; } *pj = vi: the entries
\* before place pj whose score is above vp move up one place and vi takes
\* the place left
RECURSIVE insert(_, _, _, _, _, _)
insert(v, tosort, pl, pj, vi, vp) ==
  IF pj > pl /\ vp < v[tosort[pj - 1]]
  THEN WithValue([tosort EXCEPT ![pj] = tosort[pj - 1]],
                 LAMBDA moved : insert(v, moved, pl, pj - 1, vi, vp))
  ELSE [tosort EXCEPT ![pj] = vi]

\* for (pi = first; pi <= last; ++pi) of the insertion sort of the places
\* from pl on
RECURSIVE insertion_sort(_, _, _, _, _)
insertion_sort(v, tosort, pl, first, last) ==
  IF first > last THEN tosort
  ELSE IF first = last
  THEN insert(v, tosort, pl, first, tosort[first], v[tosort[first]])
  ELSE WithValue(insertion_sort(v, tosort, pl, first, (first + last) \div 2),
                 LAMBDA half :
                   insertion_sort(v, half, pl, ((first + last) \div 2) + 1,
                                  last))

\* the inner loop of a heap: tmp sinks from place i of the heap a = tosort +
\* pl - 1 of n entries, j being the first child of i
RECURSIVE sift(_, _, _, _, _, _, _)
sift(v, tosort, pl, tmp, i, j, n) ==
  IF j > n THEN [tosort EXCEPT ![(pl + i) - 1] = tmp]
  ELSE WithValue(
         IF j < n /\ v[tosort[(pl + j) - 1]] < v[tosort[pl + j]]
         THEN j + 1 ELSE j,
         LAMBDA child :
           IF v[tmp] < v[tosort[(pl + child) - 1]]
           THEN WithValue(
                  [tosort EXCEPT ![(pl + i) - 1] = tosort[(pl + child) - 1]],
                  LAMBDA moved :
                    sift(v, moved, pl, tmp, child, child + child, n))
           ELSE [tosort EXCEPT ![(pl + i) - 1] = tmp])

\* for (l = last; l >= first; --l) of the loop that builds the heap
RECURSIVE heap_build(_, _, _, _, _, _)
heap_build(v, tosort, pl, first, last, n) ==
  IF first > last THEN tosort
  ELSE IF first = last
  THEN sift(v, tosort, pl, tosort[(pl + first) - 1], first, first + first, n)
  ELSE WithValue(
         heap_build(v, tosort, pl, ((first + last) \div 2) + 1, last, n),
         LAMBDA half :
           heap_build(v, half, pl, first, (first + last) \div 2, n))

\* for (; n >= first;) of the loop that empties a heap of last entries: the
\* root goes to place n, and the entry that was there sinks from the root of
\* the heap of n - 1 entries
RECURSIVE heap_extract(_, _, _, _, _)
heap_extract(v, tosort, pl, first, last) ==
  IF first > last THEN tosort
  ELSE IF first = last
  THEN WithValue([tosort EXCEPT ![(pl + first) - 1] = tosort[pl]],
                 LAMBDA moved :
                   sift(v, moved, pl, tosort[(pl + first) - 1], 1, 2,
                        first - 1))
  ELSE WithValue(
         heap_extract(v, tosort, pl, ((first + last) \div 2) + 1, last),
         LAMBDA half :
           heap_extract(v, half, pl, first, (first + last) \div 2))

\* aheapsort_(vv, pl, n): the n places from pl on
aheapsort(v, tosort, pl, n) ==
  WithValue(heap_build(v, tosort, pl, 1, n \div 2, n),
            LAMBDA heap : heap_extract(v, heap, pl, 2, n))

\* one pass of while ((pr - pl) > SMALL_QUICKSORT): the median of three goes
\* to pr - 1, the partition runs between pl and pr - 1, the pivot goes to pi,
\* the larger part is pushed with the depth left and the smaller is next
quicksort_pass(v, s) ==
  LET pm == s.pl + ((s.pr - s.pl) \div 2)
      pushed(parted) ==
        [tosort |-> intp_swap(parted.tosort, parted.pi, s.pr - 1),
         pl |-> IF parted.pi - s.pl < s.pr - parted.pi
                THEN s.pl ELSE parted.pi + 1,
         pr |-> IF parted.pi - s.pl < s.pr - parted.pi
                THEN parted.pi - 1 ELSE s.pr,
         stack |-> << IF parted.pi - s.pl < s.pr - parted.pi
                      THEN [pl |-> parted.pi + 1, pr |-> s.pr,
                            cdepth |-> s.cdepth - 1]
                      ELSE [pl |-> s.pl, pr |-> parted.pi - 1,
                            cdepth |-> s.cdepth - 1] >> \o s.stack,
         cdepth |-> s.cdepth - 1,
         sorted |-> FALSE]
      parts(start) == WithValue(partition(v, start, v[start.tosort[s.pr - 1]],
                                          s.pr - s.pl),
                                pushed)
      pivoted(ordered) ==
        WithValue([tosort |-> intp_swap(ordered, pm, s.pr - 1),
                   pi |-> s.pl, pj |-> s.pr - 1, broken |-> FALSE],
                  parts)
  IN WithValue(median_of_three(v, s.tosort, s.pl, pm, s.pr), pivoted)

\* the loop while ((pr - pl) > SMALL_QUICKSORT)
RECURSIVE quicksort_partitions(_, _, _)
quicksort_partitions(v, s, passes) ==
  IF s.pr - s.pl <= SMALL_QUICKSORT \/ passes = 0 THEN s
  ELSE IF passes = 1 THEN quicksort_pass(v, s)
  ELSE WithValue(quicksort_partitions(v, s, passes \div 2),
                 LAMBDA half :
                   quicksort_partitions(v, half, passes - (passes \div 2)))

\* stack_pop: the sort ends when the stack is empty, and goes on with the
\* partition on top of it otherwise
stack_pop(s) ==
  IF s.stack = << >> THEN [s EXCEPT !.sorted = TRUE]
  ELSE [tosort |-> s.tosort,
        pl |-> Head(s.stack).pl,
        pr |-> Head(s.stack).pr,
        stack |-> Tail(s.stack),
        cdepth |-> Head(s.stack).cdepth,
        sorted |-> FALSE]

\* one pass of while (1): the heapsort of pl..pr when the depth is used up,
\* and otherwise the partitions and the insertion sort of what is left of
\* pl..pr; then stack_pop
aquicksort_pass(v, s) ==
  LET inserted(q) ==
        [q EXCEPT !.tosort = insertion_sort(v, q.tosort, q.pl, q.pl + 1, q.pr)]
  IN WithValue(
       IF s.cdepth < 0
       THEN [s EXCEPT !.tosort = aheapsort(v, s.tosort, s.pl,
                                           (s.pr - s.pl) + 1)]
       ELSE WithValue(quicksort_partitions(v, s, size_of(v)), inserted),
       stack_pop)

\* the loop while (1) of aquicksort_(vv, tosort, num)
RECURSIVE aquicksort(_, _, _)
aquicksort(v, s, passes) ==
  IF s.sorted \/ passes = 0 THEN s
  ELSE IF passes = 1 THEN aquicksort_pass(v, s)
  ELSE WithValue(aquicksort(v, s, passes \div 2),
                 LAMBDA half : aquicksort(v, half, passes - (passes \div 2)))

\* the state aquicksort_ starts in: the indices in order, the whole array to
\* sort, an empty stack and the depth limit npy_get_msb(num) * 2
aquicksort_start(v, cdepth) ==
  [tosort |-> [i \in DOMAIN v |-> i], pl |-> 0, pr |-> size_of(v) - 1,
   stack |-> << >>, cdepth |-> cdepth, sorted |-> FALSE]

\* the sorted array of a sort that keeps equal scores in the order they
\* start in, here an insertion sort of the whole array: ascending index when
\* forward, descending otherwise
ordered_argsort(v, forward) ==
  WithValue([i \in DOMAIN v |-> IF forward THEN i ELSE (size_of(v) - 1) - i],
            LAMBDA start : insertion_sort(v, start, 0, 1, size_of(v) - 1))

\* np.argsort(v): the indices of v in ascending order of score
argsort(v, kind) ==
  IF kind = "quicksort"
  THEN WithValue(aquicksort_start(v, npy_get_msb(size_of(v)) * 2),
                 LAMBDA start : aquicksort(v, start, size_of(v)).tosort)
  ELSE ordered_argsort(v, kind = "stable")

\* top_indices = np.argsort(prediction[0])[-n:][::-1]; the slice [-n:] is the
\* whole array when n is 0 or exceeds its length
top_indices(v, n, kind) ==
  LET size == size_of(v)
      kept == IF n = 0 \/ n > size THEN size ELSE n
  IN WithValue(argsort(v, kind),
               LAMBDA sorted : [k \in 1..kept |-> sorted[size - k]])

\* f"{NOTE_NAMES[semitone]}{octave}" with octave = idx // 12, semitone = idx % 12
top_note(idx) == NOTE_NAMES[(idx % 12) + 1] \o str(idx \div 12)

\* get_top_notes(prediction, n): (top_notes, top_confidences)
get_top_notes(prediction, n, ties) ==
  WithValue(top_indices(prediction, n, ties),
            LAMBDA top :
              [top_notes |-> [k \in 1..Len(top) |-> top_note(top[k])],
               top_confidences |-> [k \in 1..Len(top) |-> prediction[top[k]]]])

\* np.sum of the entries 0..i of a vector
RECURSIVE np_sum(_, _)
np_sum(v, i) == IF i < 0 THEN 0 ELSE v[i] + np_sum(v, i - 1)

\* np.mean(v), as the fraction sum / size
np_mean(v) == [num |-> np_sum(v, NUM_CLASSES - 1), den |-> NUM_CLASSES]

\* np.abs(a - b)
np_abs_diff(a, b) ==
  [c \in DOMAIN a |-> IF a[c] >= b[c] THEN a[c] - b[c] ELSE b[c] - a[c]]

\* np.square(a - b)
np_square_diff(a, b) == [c \in DOMAIN a |-> (a[c] - b[c]) * (a[c] - b[c])]

\* the covariance np.cov(a, b)[0, 1] returned without normalising it
np_corrcoef_covariance(a, b) ==
  LET n == NUM_CLASSES
      sa == np_sum(a, n - 1)
      sb == np_sum(b, n - 1)
      cov == n * np_sum([c \in DOMAIN a |-> a[c] * b[c]], n - 1) - sa * sb
  IN [nan |-> FALSE, cov |-> cov, var_a |-> n * n, var_b |-> n * n]

\* the correlation with 0.0 in place of the undefined value
np_corrcoef_zero(a, b) ==
  LET n == NUM_CLASSES
      sa == np_sum(a, n - 1)
      sb == np_sum(b, n - 1)
      cov == n * np_sum([c \in DOMAIN a |-> a[c] * b[c]], n - 1) - sa * sb
      var_a == n * np_sum([c \in DOMAIN a |-> a[c] * a[c]], n - 1) - sa * sa
      var_b == n * np_sum([c \in DOMAIN a |-> b[c] * b[c]], n - 1) - sb * sb
  IN IF var_a = 0 \/ var_b = 0
     THEN [nan |-> FALSE, cov |-> 0, var_a |-> 1, var_b |-> 1]
     ELSE [nan |-> FALSE, cov |-> cov, var_a |-> var_a, var_b |-> var_b]

\* np.corrcoef(a, b)[0, 1] = cov / sqrt(var_a * var_b), with covariance and
\* variances scaled by n * n; 0 / 0 is nan, which happens exactly when one of
\* the vectors has zero variance (the covariance is then 0 as well)
np_corrcoef(a, b) ==
  LET n == NUM_CLASSES
      sa == np_sum(a, n - 1)
      sb == np_sum(b, n - 1)
      cov == n * np_sum([c \in DOMAIN a |-> a[c] * b[c]], n - 1) - sa * sb
      var_a == n * np_sum([c \in DOMAIN a |-> a[c] * a[c]], n - 1) - sa * sa
      var_b == n * np_sum([c \in DOMAIN a |-> b[c] * b[c]], n - 1) - sb * sb
  IN IF var_a = 0 \/ var_b = 0
     THEN [nan |-> TRUE, cov |-> 0, var_a |-> 0, var_b |-> 0]
     ELSE [nan |-> FALSE, cov |-> cov, var_a |-> var_a, var_b |-> var_b]

\* the notes counted position by position instead of as sets
overlap_positional(tf_top_notes, onnx_top_notes) ==
  Cardinality({k \in 1..Len(tf_top_notes) : tf_top_notes[k] = onnx_top_notes[k]})

\* len(set(tf_top_notes) & set(onnx_top_notes))
overlap(tf_top_notes, onnx_top_notes) ==
  Cardinality({tf_top_notes[k] : k \in 1..Len(tf_top_notes)}
                \cap {onnx_top_notes[k] : k \in 1..Len(onnx_top_notes)})

\* compare_predictions(tf_prediction, onnx_prediction): the dictionary
\* returned; overlap_percentage = overlap / 5 * 100 is overlap * 20
compare_predictions(tf_prediction, onnx_prediction, ties) ==
  LET returned(tf, onnx, count) ==
        [status |-> "returned",
         mae |-> np_mean(np_abs_diff(tf_prediction, onnx_prediction)),
         mse |-> np_mean(np_square_diff(tf_prediction, onnx_prediction)),
         correlation |-> np_corrcoef(tf_prediction, onnx_prediction),
         tf_top_notes |-> tf.top_notes,
         tf_confidences |-> tf.top_confidences,
         onnx_top_notes |-> onnx.top_notes,
         onnx_confidences |-> onnx.top_confidences,
         overlap |-> count,
         overlap_percentage |-> (count * 100) \div 5,
         top_note_match |-> tf.top_notes[1] = onnx.top_notes[1]]
  IN WithValue(
       get_top_notes(tf_prediction, 5, ties),
       LAMBDA tf :
         WithValue(
           get_top_notes(onnx_prediction, 5, ties),
           LAMBDA onnx :
             WithValue(overlap(tf.top_notes, onnx.top_notes),
                       LAMBDA count : returned(tf, onnx, count))))

\* Score vectors: all zero but for scores 0..MaxScore at a few indices, and
\* vectors with five or more positive scores

MaxScore == 2

SupportIndices == {46, 47}

SparseVectors ==
  {[c \in 0..(NUM_CLASSES - 1) |-> IF c \in SupportIndices THEN f[c] ELSE 0] :
     f \in [SupportIndices -> 0..MaxScore]}

\* every class with the same score
ConstantVector(x) == [c \in 0..(NUM_CLASSES - 1) |-> x]

\* scores 5, 4, 3, 2, 1 at the indices a, ..., a + 4
RampDown(a) ==
  [c \in 0..(NUM_CLASSES - 1) |-> IF c \in a..(a + 4) THEN (a + 5) - c ELSE 0]

\* scores 1, 2, 3, 4, 5 at the indices a, ..., a + 4
RampUp(a) ==
  [c \in 0..(NUM_CLASSES - 1) |-> IF c \in a..(a + 4) THEN (c - a) + 1 ELSE 0]

FixedVectors ==
  {ConstantVector(1), RampDown(0), RampUp(0), RampDown(2), RampDown(91)}

ScoreVectors == SparseVectors \cup FixedVectors

\* the values of n that get_top_notes is called with
TopCounts == {1, 3, 5}

\* the first loop of the note branch: the first part, '.wav' stripped, of
\* two or more characters that starts with a letter in 'ABCDEFG' and goes on
\* with digits only or with '#' or 'b'
RECURSIVE note_pattern_part(_)
note_pattern_part(parts) ==
  IF parts = << >> THEN NotFound
  ELSE LET part == strip_wav(Head(parts))
       IN IF /\ Len(part) >= 2
             /\ part[1] \in NoteLetters
             /\ (str_isdigit(Tail(part)) \/ part[2] \in {"#", "b"})
          THEN Found(part)
          ELSE note_pattern_part(Tail(parts))

\* the second loop of the note branch: the first part, '.wav' stripped,
\* that starts with one of 'A', ..., 'G'
RECURSIVE note_prefix_part(_)
note_prefix_part(parts) ==
  IF parts = << >> THEN NotFound
  ELSE LET part == strip_wav(Head(parts))
       IN IF startswith_note(part) THEN Found(part)
          ELSE note_prefix_part(Tail(parts))

\* label_type == 'note'
note_label(audio_path, filename) ==
  LET parts == split(filename, "_")
      first == IF Len(parts) >= 2 THEN note_pattern_part(parts) ELSE NotFound
      second == IF str_in(<<"s", "i", "n", "g", "l", "e", "_", "n", "o", "t", "e", "s">>, audio_path)
                THEN note_prefix_part(parts) ELSE NotFound
  IN IF first.found THEN StrLabel(first.part)
     ELSE IF second.found THEN StrLabel(second.part)
     ELSE StrLabel(unknown)

\* the chord notes part of what follows 'chord_': the text before the first
\* '_' if there is one, else the text before the first '.'
chord_part(remaining) ==
  IF contains(remaining, "_") THEN split(remaining, "_")[1]
  ELSE split(remaining, ".")[1]

\* the first part that holds a '-' and one of 'A', ..., 'G'
RECURSIVE hyphen_note_part(_)
hyphen_note_part(parts) ==
  IF parts = << >> THEN NotFound
  ELSE IF contains(Head(parts), "-")
          /\ \E note \in NoteLetters : contains(Head(parts), note)
    THEN Found(Head(parts))
  ELSE hyphen_note_part(Tail(parts))

\* the first part that starts with one of 'A', ..., 'G' followed by a digit,
\* '#' or 'b'
RECURSIVE chord_name_part(_)
chord_name_part(parts) ==
  IF parts = << >> THEN NotFound
  ELSE LET part == Head(parts)
       IN IF /\ startswith_note(part)
             /\ Len(part) > 1
             /\ (isdigit(part[2]) \/ part[2] \in {"#", "b"})
          THEN Found(part)
          ELSE chord_name_part(Tail(parts))

\* label_type == 'chord'
chord_label(audio_path, filename) ==
  IF startswith(filename, <<"c", "h", "o", "r", "d", "_">>) THEN
    LET remaining == SubSeq(filename, 7, Len(filename))
    IN IF contains(remaining, "-") THEN StrLabel(chord_part(remaining))
       ELSE StrLabel(chord_part(remaining))
  ELSE
    LET parts == split(str_remove(filename, wav), "_")
        first == hyphen_note_part(parts)
        second == IF str_in(<<"c", "h", "o", "r", "d", "s">>, audio_path)
                  THEN chord_name_part(parts) ELSE NotFound
    IN IF first.found THEN StrLabel(first.part)
       ELSE IF second.found THEN StrLabel(second.part)
       ELSE StrLabel(unknown)

\* the first part of the file name that starts with 'key_'
RECURSIVE key_part(_)
key_part(parts) ==
  IF parts = << >> THEN NotFound
  ELSE IF startswith(Head(parts), <<"k", "e", "y", "_">>) THEN Found(Head(parts))
  ELSE key_part(Tail(parts))

\* label_type == 'key_tuning'
key_tuning_label(filename, parent_dir, grandparent_dir) ==
  IF startswith(grandparent_dir, <<"k", "e", "y", "_">>)
    THEN DictLabel(SubSeq(grandparent_dir, 5, Len(grandparent_dir)))
  ELSE IF startswith(parent_dir, <<"k", "e", "y", "_">>)
    THEN DictLabel(SubSeq(parent_dir, 5, Len(parent_dir)))
  ELSE LET in_name == key_part(split(filename, "_"))
       IN IF in_name.found
          THEN DictLabel(SubSeq(in_name.part, 5, Len(in_name.part)))
          ELSE DictLabel(unknown)

\* get_label_from_path(audio_path, label_type): the label returned; any
\* other label type gets the default case
get_label_from_path(audio_path, label_type) ==
  LET filename == basename(audio_path)
      parent_dir == basename(dirname(audio_path))
      grandparent_dir == basename(dirname(dirname(audio_path)))
  IN IF label_type = "note"
       THEN [status |-> "returned", label |-> note_label(audio_path, filename)]
     ELSE IF label_type = "chord"
       THEN [status |-> "returned", label |-> chord_label(audio_path, filename)]
     ELSE IF label_type = "key_tuning"
       THEN [status |-> "returned",
             label |-> key_tuning_label(filename, parent_dir, grandparent_dir)]
     ELSE [status |-> "returned", label |-> StrLabel(unknown)]

\* Audio paths: a directory and a file name of up to MaxSegs segments joined
\* by '_' and ending in '.wav', and the file names of the repository's own
\* tests and augmentation steps

MaxSegs == 3

Directories ==
  { <<"/", "d", "a", "t", "a", "/", "s", "i", "n", "g", "l", "e", "_", "n", "o", "t", "e", "s">>,
    <<"/", "d", "a", "t", "a", "/", "c", "h", "o", "r", "d", "s">>,
    <<"/", "k", "e", "y", "_", "C", "/", "t", "r", "a", "i", "n">>,
    <<"/", "t", "r", "a", "i", "n", "/", "k", "e", "y", "_", "B", "b">> }

Segments ==
  { <<"n", "o", "t", "e">>, <<"c", "h", "o", "r", "d">>, <<"C", "4">>, <<"A", "#", "3">>, <<"C", "m", "a", "j">>, <<"B", "a", "d">>, <<"D", "4", "-", "G", "4">>, <<"A", "m", ".", "2">> }

\* '_'.join(segments)
RECURSIVE join_segments(_)
join_segments(segments) ==
  IF Len(segments) = 1 THEN segments[1]
  ELSE segments[1] \o <<"_">> \o join_segments(Tail(segments))

TestFileNames ==
  { <<"n", "o", "t", "e", "_", "A", "#", "3", "_", "b", "l", "o", "w", ".", "w", "a", "v">>,
    <<"n", "o", "t", "e", "_", "C", "4", "_", "b", "l", "o", "w", ".", "w", "a", "v">>,
    <<"c", "h", "o", "r", "d", "_", "D", "4", "-", "G", "4", "_", "1", ".", "w", "a", "v">>,
    <<"c", "h", "o", "r", "d", "_", "C", "4", "-", "E", "4", "-", "G", "4", "_", "1", ".", "w", "a", "v">>,
    <<"c", "h", "o", "r", "d", "_", "C", "4", "-", "E", "4", "-", "G", "4", "_", "1", "_", "p", "i", "t", "c", "h", "-", "1", ".", "w", "a", "v">>,
    <<"c", "h", "o", "r", "d", "_", "C", "m", "a", "j", "_", "2", "_", "n", "o", "i", "s", "e", "0", ".", "0", "5", ".", "w", "a", "v">>,
    <<"c", "h", "o", "r", "d", "_", "C", "m", "a", "j">>,
    <<"b", "l", "o", "w", ".", "w", "a", "v", "_", "C", "4">>,
    <<"t", "a", "k", "e", ".", "w", "a", "v", "_", "D", "4", "-", "G", "4", ".", "w", "a", "v">>,
    <<"k", "e", "y", "_", "G", ".", "w", "a", "v">> }

FileNames ==
  {join_segments(ps) \o wav :
     ps \in UNION {[1..k -> Segments] : k \in 1..MaxSegs}}
    \cup TestFileNames

AudioPaths == {d \o <<"/">> \o f : d \in Directories, f \in FileNames}

LabelTypes == {"note", "chord", "key_tuning", "genre"}

----------------------------------------------------------------------------
\* State: one batch of raw labels and what each stage has made of it; one
\* audio path, the label type asked for and the label read from the path

VARIABLES labels_list, eval_result, train_result, prediction,
          audio_path, label_type, path_label,
          tf_prediction, onnx_prediction, argsort_ties, top_result, comparison,
          chord_files, test_pc, test_flags, results,
          input_dirs, output_dirs, extraction,
          features_dir, feature_type, target_file, dataset,
          prep_files, metadata, organize, augment, train_count, val_count,
          augmented_count, written_files, processed_metadata

encoderVars == <<labels_list, eval_result, train_result, prediction>>

pathVars == <<audio_path, label_type, path_label>>

scoreVars ==
  <<tf_prediction, onnx_prediction, argsort_ties, top_result, comparison>>

chordTestVars == <<chord_files, test_pc, test_flags, results>>

extractVars == <<input_dirs, output_dirs, extraction>>

loadVars == <<features_dir, feature_type, target_file, dataset>>

augmentVars ==
  <<prep_files, metadata, organize, augment, train_count, val_count,
    augmented_count, written_files, processed_metadata>>

vars == <<labels_list, eval_result, train_result, prediction,
          audio_path, label_type, path_label,
          tf_prediction, onnx_prediction, argsort_ties, top_result, comparison,
          chord_files, test_pc, test_flags, results,
          input_dirs, output_dirs, extraction,
          features_dir, feature_type, target_file, dataset,
          prep_files, metadata, organize, augment, train_count, val_count,
          augmented_count, written_files, processed_metadata>>

\* the variables each specification leaves alone
outsideEncoder == <<pathVars, scoreVars, chordTestVars, extractVars, loadVars, augmentVars>>

outsidePath == <<encoderVars, scoreVars, chordTestVars, extractVars, loadVars, augmentVars>>

outsideCompare == <<encoderVars, pathVars, chordTestVars, extractVars, loadVars, augmentVars>>

outsideChordTest == <<encoderVars, pathVars, scoreVars, extractVars, loadVars, augmentVars>>

outsideExtract == <<encoderVars, pathVars, scoreVars, chordTestVars, loadVars, augmentVars>>

outsideLoad == <<encoderVars, pathVars, scoreVars, chordTestVars, extractVars, augmentVars>>

outsideAugment == <<encoderVars, pathVars, scoreVars, chordTestVars, extractVars, loadVars>>

Pending == [status |-> "pending"]

\* no batch of labels at hand
NoLabels ==
  /\ labels_list = << >>
  /\ eval_result = Pending
  /\ train_result = Pending
  /\ prediction = Pending

\* no audio path at hand
NoPath ==
  /\ audio_path = << >>
  /\ label_type = "note"
  /\ path_label = Pending

\* no pair of predictions at hand
NoScores ==
  /\ tf_prediction = << >>
  /\ onnx_prediction = << >>
  /\ argsort_ties = "stable"
  /\ top_result = Pending
  /\ comparison = Pending

\* no chord-detection test under way
NoChordTest ==
  /\ chord_files = << >>
  /\ test_pc = [file |-> 0, at |-> "idle"]
  /\ test_flags = Pending
  /\ results = Pending

\* no feature extraction under way
NoExtraction ==
  /\ input_dirs = << >>
  /\ output_dirs = << >>
  /\ extraction = Pending

\* no data set being loaded
NoLoad ==
  /\ features_dir = [has_subdirs |-> FALSE,
                     train_features |-> << >>, train_labels |-> << >>,
                     val_features |-> << >>, val_labels |-> << >>,
                     all_features |-> << >>, all_labels |-> << >>]
  /\ feature_type = "all"
  /\ target_file = [given |-> FALSE, path |-> << >>, readable |-> FALSE]
  /\ dataset = Pending

\* the names of the input files, base name and extension: two files of one
\* name differ in their directory
PrepFileNames == {<<"x", ".wav">>, <<"x", ".mp3">>, <<"y", ".wav">>}

\* the keys the metadata holds for a file name; NoKey for a name the metadata
\* has no entry for, or an entry without 'key'
Keys == {"C", "D"}

NoKey == "none"

\* no augmentation under way
NoAugment ==
  /\ prep_files = << >> /\ augment = FALSE
  /\ organize = FALSE /\ metadata = [name \in PrepFileNames |-> NoKey]
  /\ train_count = 0 /\ val_count = 0 /\ augmented_count = 0
  /\ written_files = [segments |-> {}, augmented |-> {}]
  /\ processed_metadata = Pending

Init ==
  /\ labels_list \in LabelLists
  /\ eval_result = Pending
  /\ train_result = Pending
  /\ prediction = Pending
  /\ NoPath
  /\ NoScores
  /\ NoChordTest /\ NoExtraction /\ NoLoad /\ NoAugment

\* model_evaluation.process_labels(labels_list)
EvalProcessLabels ==
  /\ eval_result = Pending
  /\ eval_result' = eval_process_labels(labels_list)
  /\ UNCHANGED <<labels_list, train_result, prediction>>
  /\ UNCHANGED outsideEncoder

\* model_training.process_labels(labels_list)
TrainProcessLabels ==
  /\ train_result = Pending
  /\ train_result' = train_process_labels(labels_list)
  /\ UNCHANGED <<labels_list, eval_result, prediction>>
  /\ UNCHANGED outsideEncoder

\* the decoding of predict_audio_file applied to each row of the one-hot
\* matrix as the score vector
PredictNotes ==
  /\ eval_result.status = "returned"
  /\ prediction = Pending
  /\ prediction' =
       [status |-> "returned",
        predicted_class |->
          [i \in 1..Len(labels_list) |-> np_argmax(eval_result.one_hot_labels[i])],
        predicted_note |->
          [i \in 1..Len(labels_list) |->
             predicted_note(np_argmax(eval_result.one_hot_labels[i]))]]
  /\ UNCHANGED <<labels_list, eval_result, train_result>>
  /\ UNCHANGED outsideEncoder

Next == EvalProcessLabels \/ TrainProcessLabels \/ PredictNotes

Spec == Init /\ [][Next]_vars

\* one call of get_label_from_path, as process_directory makes for each file
InitPath ==
  /\ NoLabels
  /\ NoScores
  /\ NoChordTest /\ NoExtraction /\ NoLoad /\ NoAugment
  /\ audio_path \in AudioPaths
  /\ label_type \in LabelTypes
  /\ path_label = Pending

\* label = get_label_from_path(audio_path, label_type)
GetLabelFromPath ==
  /\ path_label = Pending
  /\ path_label' = get_label_from_path(audio_path, label_type)
  /\ UNCHANGED <<audio_path, label_type>>
  /\ UNCHANGED outsidePath

NextPath == GetLabelFromPath

SpecPath == InitPath /\ [][NextPath]_vars

\* the predictions of the two backends for one audio file, and the sort the
\* build's argsort runs
InitCompare ==
  /\ NoLabels
  /\ NoPath
  /\ NoChordTest /\ NoExtraction /\ NoLoad /\ NoAugment
  /\ tf_prediction \in ScoreVectors
  /\ onnx_prediction \in {tf_prediction} \cup FixedVectors
  /\ argsort_ties \in TieOrders
  /\ top_result = Pending
  /\ comparison = Pending

\* top_notes, top_confidences = get_top_notes(tf_prediction, n)
GetTopNotes ==
  /\ top_result = Pending
  /\ \E n \in TopCounts :
       top_result' =
         LET top == get_top_notes(tf_prediction, n, argsort_ties)
         IN [status |-> "returned", n |-> n,
             top_notes |-> top.top_notes,
             top_confidences |-> top.top_confidences]
  /\ UNCHANGED <<tf_prediction, onnx_prediction, argsort_ties, comparison>>
  /\ UNCHANGED outsideCompare

\* comparison = compare_predictions(tf_prediction, onnx_prediction)
ComparePredictions ==
  /\ comparison = Pending
  /\ comparison' = compare_predictions(tf_prediction, onnx_prediction, argsort_ties)
  /\ UNCHANGED <<tf_prediction, onnx_prediction, argsort_ties, top_result>>
  /\ UNCHANGED outsideCompare

NextCompare == GetTopNotes \/ ComparePredictions

SpecCompare == InitCompare /\ [][NextCompare]_vars

----------------------------------------------------------------------------
\* test_all_chords / test_onnx_model: the loop of test_chord_detection over
\* the chord files.  Confidences are in tenths.  What a file does to the
\* loop body is its description: whether reading its name, its features or
\* the model raises, the confidences the prediction holds for its chord
\* notes, and whether the chroma peaks hold one of its notes.

\* CONFIDENCE_THRESHOLD = 0.3
CONFIDENCE_THRESHOLD == 3

MaxTestFiles == 2

ChordConfidences == {<< >>, <<3>>, <<2, 4>>}

ChordFileKinds ==
  {[raises |-> FALSE, confidences |-> cs, chroma_found |-> ch] :
     cs \in ChordConfidences, ch \in BOOLEAN}
    \cup {[raises |-> TRUE, confidences |-> << >>, chroma_found |-> FALSE]}

ChordFileLists == UNION {[1..k -> ChordFileKinds] : k \in 1..MaxTestFiles}

\* any(conf > CONFIDENCE_THRESHOLD for _, conf in all_chord_confidences)
any_above_threshold(confidences) ==
  \E k \in 1..Len(confidences) : confidences[k] > CONFIDENCE_THRESHOLD

\* the entry appended for a file processed without error
result_entry(file, flags) ==
  [file |-> file, error |-> FALSE,
   model_passed |-> flags.model_passed,
   chroma_passed |-> flags.chroma_passed,
   overall_passed |-> flags.overall_passed]

\* the entry appended by the two except clauses
error_entry(file) ==
  [file |-> file, error |-> TRUE,
   model_passed |-> FALSE, chroma_passed |-> FALSE, overall_passed |-> FALSE]

\* the results dictionary before the first file
empty_results ==
  [model_passed |-> 0, chroma_passed |-> 0, overall_passed |-> 0,
   chord_results |-> << >>]

InitChordTest ==
  /\ NoLabels /\ NoPath /\ NoScores /\ NoExtraction /\ NoLoad /\ NoAugment
  /\ chord_files \in ChordFileLists
  /\ test_pc = [file |-> 1, at |-> "arm"]
  /\ test_flags = Pending
  /\ results = empty_results

\* the next iteration of the loop over the files
next_file == [file |-> test_pc.file + 1, at |-> "arm"]

\* signal.alarm(TIMEOUT_SECONDS) at the head of the loop body
ArmAlarm ==
  /\ test_pc.at = "arm"
  /\ test_pc.file <= Len(chord_files)
  /\ test_pc' = [test_pc EXCEPT !.at = "enter_try"]
  /\ UNCHANGED <<chord_files, test_flags, results>>
  /\ UNCHANGED outsideChordTest

\* try:
EnterTry ==
  /\ test_pc.at = "enter_try"
  /\ test_pc' = [test_pc EXCEPT !.at = "try"]
  /\ UNCHANGED <<chord_files, test_flags, results>>
  /\ UNCHANGED outsideChordTest

\* the try block up to overall_passed = model_passed or chroma_passed; an
\* exception (the file raises, or the average over no confidences divides by
\* zero) enters the except Exception clause with the alarm still armed
EvaluateFile ==
  /\ test_pc.at = "try"
  /\ LET f == chord_files[test_pc.file]
     IN IF f.raises \/ Len(f.confidences) = 0
        THEN /\ test_flags' = Pending
             /\ test_pc' = [test_pc EXCEPT !.at = "except"]
             /\ UNCHANGED results
        ELSE /\ test_flags' =
                  [model_passed |-> any_above_threshold(f.confidences),
                   chroma_passed |-> f.chroma_found,
                   overall_passed |->
                     any_above_threshold(f.confidences) \/ f.chroma_found]
             /\ test_pc' = [test_pc EXCEPT !.at = "count_model"]
             /\ UNCHANGED results
  /\ UNCHANGED chord_files
  /\ UNCHANGED outsideChordTest

\* if model_passed: results['model_passed'] += 1
CountModelPassed ==
  /\ test_pc.at = "count_model"
  /\ results' = IF test_flags.model_passed
                THEN [results EXCEPT !.model_passed = @ + 1] ELSE results
  /\ test_pc' = [test_pc EXCEPT !.at = "count_chroma"]
  /\ UNCHANGED <<chord_files, test_flags>>
  /\ UNCHANGED outsideChordTest

\* if chroma_passed: results['chroma_passed'] += 1
CountChromaPassed ==
  /\ test_pc.at = "count_chroma"
  /\ results' = IF test_flags.chroma_passed
                THEN [results EXCEPT !.chroma_passed = @ + 1] ELSE results
  /\ test_pc' = [test_pc EXCEPT !.at = "count_overall"]
  /\ UNCHANGED <<chord_files, test_flags>>
  /\ UNCHANGED outsideChordTest

\* if overall_passed: results['overall_passed'] += 1
CountOverallPassed ==
  /\ test_pc.at = "count_overall"
  /\ results' = IF test_flags.overall_passed
                THEN [results EXCEPT !.overall_passed = @ + 1] ELSE results
  /\ test_pc' = [test_pc EXCEPT !.at = "append"]
  /\ UNCHANGED <<chord_files, test_flags>>
  /\ UNCHANGED outsideChordTest

\* results['chord_results'].append({...})
AppendResult ==
  /\ test_pc.at = "append"
  /\ results' = [results EXCEPT !.chord_results =
                   Append(@, result_entry(test_pc.file, test_flags))]
  /\ test_pc' = [test_pc EXCEPT !.at = "cancel"]
  /\ UNCHANGED <<chord_files, test_flags>>
  /\ UNCHANGED outsideChordTest

\* signal.alarm(0) at the end of the try block
CancelAlarm ==
  /\ test_pc.at = "cancel"
  /\ test_pc' = next_file
  /\ test_flags' = Pending
  /\ UNCHANGED <<chord_files, results>>
  /\ UNCHANGED outsideChordTest

\* signal.alarm(0), the first statement of the except Exception clause
CancelAlarmInExcept ==
  /\ test_pc.at = "except"
  /\ test_pc' = [test_pc EXCEPT !.at = "append_error"]
  /\ UNCHANGED <<chord_files, test_flags, results>>
  /\ UNCHANGED outsideChordTest

\* results['chord_results'].append({... 'error': str(e) ...}) of the except
\* Exception clause
AppendErrorEntry ==
  /\ test_pc.at = "append_error"
  /\ results' = [results EXCEPT !.chord_results =
                   Append(@, error_entry(test_pc.file))]
  /\ test_pc' = next_file
  /\ UNCHANGED <<chord_files, test_flags>>
  /\ UNCHANGED outsideChordTest

\* SIGALRM while the alarm is armed and no try block is around the statement
\* being executed (before try:, or inside the except Exception clause before
\* its signal.alarm(0)): TimeoutError leaves test_chord_detection, the file
\* gets no entry and the files after it are not processed
UncaughtTimeout ==
  /\ test_pc.at \in {"enter_try", "except"}
  /\ test_pc' = [test_pc EXCEPT !.at = "raised"]
  /\ test_flags' = Pending
  /\ UNCHANGED <<chord_files, results>>
  /\ UNCHANGED outsideChordTest

\* SIGALRM inside the try block: timeout_handler raises TimeoutError at the
\* statement being executed, and the except TimeoutError clause cancels the
\* alarm, which is no longer pending, and appends an error entry
AlarmTimeout ==
  /\ test_pc.at \in {"try", "count_model", "count_chroma", "count_overall",
                     "append", "cancel"}
  /\ results' = [results EXCEPT !.chord_results =
                   Append(@, error_entry(test_pc.file))]
  /\ test_pc' = next_file
  /\ test_flags' = Pending
  /\ UNCHANGED chord_files
  /\ UNCHANGED outsideChordTest

NextChordTest ==
  \/ ArmAlarm \/ EvaluateFile \/ CountModelPassed \/ CountChromaPassed
  \/ CountOverallPassed \/ AppendResult \/ CancelAlarm \/ AlarmTimeout
  \/ EnterTry \/ CancelAlarmInExcept \/ AppendErrorEntry \/ UncaughtTimeout

SpecChordTest == InitChordTest /\ [][NextChordTest]_vars

----------------------------------------------------------------------------
\* data_preparation: process_files over a shuffled list of audio files, with
\* preprocess_audio and apply_augmentation called for each

\* files per run
MaxPrepFiles == 2

\* the files apply_augmentation writes when nothing fails: two pitch-shifted,
\* two time-stretched, two noisy
AUGMENTED_FILES == 6

\* what apply_augmentation does to a segment is decided by where it fails:
\* the number of files written before an exception, AUGMENTED_FILES when
\* none is raised
FailurePoints == {0, 3, AUGMENTED_FILES}

\* the failure points of the segments of a file, for files of one and of two
\* segments
SegmentFailures ==
  { <<AUGMENTED_FILES>>, <<0>>, <<3>>,
    <<AUGMENTED_FILES, AUGMENTED_FILES>>, <<AUGMENTED_FILES, 3>> }

\* the suffixes of the files apply_augmentation writes, in the order it writes
\* them
AUGMENTED_SUFFIXES ==
  <<"_pitch-1", "_pitch1", "_stretch0.9", "_stretch1.1", "_noise0.05",
    "_noise0.1">>

\* set_dir of a file of the loop
set_dir(file) == IF file.is_train THEN "train" ELSE "validation"

\* output_subdir: <set_dir>/key_<key> when organize is set and the metadata
\* of the file name holds a key, <set_dir>/unknown otherwise
output_subdir(file, info, organized) ==
  IF organized /\ info[file.name] # NoKey
  THEN <<set_dir(file), "key_", info[file.name]>>
  ELSE <<set_dir(file), "unknown">>

\* segment_path f"{output_base}_{i}.wav", output_base being the output
\* subdirectory joined with os.path.splitext(file_name)[0]
segment_path(file, info, organized, i) ==
  <<output_subdir(file, info, organized), file.name[1], i>>

\* apply_augmentation(audio_path, output_dir): the files written before the
\* failure point, in output_dir and named after the base name of the segment
\* file; return 5 at the end of the try block, return 0 from the except
\* clause
apply_augmentation(path, directory, failure_point) ==
  [written |-> {<<directory, <<path[2], path[3]>>, AUGMENTED_SUFFIXES[k]>> :
                  k \in 1..failure_point},
   returned |-> IF failure_point = AUGMENTED_FILES THEN 5 ELSE 0]

\* preprocess_audio(file_path, output_path, normalize): the segment files
\* written, len(segments) when every segment was saved, 0 from the except
\* clause
preprocess_audio(file, info, organized) ==
  [written |-> {segment_path(file, info, organized, i) :
                  i \in 0..(file.segments - 1)},
   returned |-> IF file.raised THEN 0 ELSE file.segments]

\* a file of the run: the set it goes to, its name, the segments
\* preprocess_audio writes, whether it raises after writing them, and for
\* every segment it returns the failure point of its augmentation
PrepFiles ==
  {[is_train |-> b, name |-> s, segments |-> Len(f), raised |-> FALSE,
    failures |-> f] :
     b \in BOOLEAN, s \in PrepFileNames, f \in SegmentFailures}
    \cup {[is_train |-> TRUE, name |-> s, segments |-> k, raised |-> TRUE,
           failures |-> << >>] :
            s \in PrepFileNames, k \in 0..1}

\* the files in the order of the loop: is_train is i < split_idx, so the
\* training files come first
PrepFileLists ==
  { l \in UNION {[1..k -> PrepFiles] : k \in 1..MaxPrepFiles} :
      \A i \in 1..(Len(l) - 1) : l[i + 1].is_train => l[i].is_train }

\* sum of the values apply_augmentation returns, and the files it writes,
\* over the segments i of range(segments)
RECURSIVE augment_segments(_, _, _, _)
augment_segments(file, info, organized, segments) ==
  IF segments = 0 THEN [written |-> {}, returned |-> 0]
  ELSE LET before == augment_segments(file, info, organized, segments - 1)
           this == apply_augmentation(
                     segment_path(file, info, organized, segments - 1),
                     output_subdir(file, info, organized),
                     file.failures[segments])
       IN [written |-> before.written \cup this.written,
           returned |-> before.returned + this.returned]

\* the inputs of a run; the metadata holds keys for names of the run only
InitAugment ==
  /\ NoLabels /\ NoPath /\ NoScores
  /\ NoChordTest /\ NoExtraction /\ NoLoad
  /\ prep_files \in PrepFileLists
  /\ organize \in BOOLEAN
  /\ metadata \in [PrepFileNames -> Keys \cup {NoKey}]
  /\ \A name \in PrepFileNames :
       (\A i \in 1..Len(prep_files) : prep_files[i].name # name) =>
         metadata[name] = NoKey
  /\ augment \in BOOLEAN
  /\ train_count = 0 /\ val_count = 0 /\ augmented_count = 0
  /\ written_files = [segments |-> {}, augmented |-> {}]
  /\ processed_metadata = Pending

\* one iteration of the loop over audio_files; a file written under a name
\* that exists replaces the file of that name
ProcessFile ==
  /\ prep_files # << >>
  /\ processed_metadata = Pending
  /\ LET file == Head(prep_files)
         prep == preprocess_audio(file, metadata, organize)
         segments == prep.returned
         aug == IF augment /\ file.is_train
                THEN augment_segments(file, metadata, organize, segments)
                ELSE [written |-> {}, returned |-> 0]
     IN /\ train_count' = IF file.is_train THEN train_count + segments
                          ELSE train_count
        /\ val_count' = IF file.is_train THEN val_count
                        ELSE val_count + segments
        /\ augmented_count' = augmented_count + aug.returned
        /\ written_files' =
             [segments |-> written_files.segments \cup prep.written,
              augmented |-> written_files.augmented \cup aug.written]
  /\ prep_files' = Tail(prep_files)
  /\ UNCHANGED <<metadata, organize, augment, processed_metadata>>
  /\ UNCHANGED outsideAugment

\* processed_metadata.json written after the loop
WriteProcessedMetadata ==
  /\ prep_files = << >>
  /\ processed_metadata = Pending
  /\ processed_metadata' =
       [status |-> "written",
        train_segments |-> train_count,
        validation_segments |-> val_count,
        augmented_segments |-> augmented_count,
        total_segments |-> train_count + val_count + augmented_count]
  /\ UNCHANGED <<prep_files, metadata, organize, augment, train_count,
                 val_count, augmented_count, written_files>>
  /\ UNCHANGED outsideAugment

NextAugment == ProcessFile \/ WriteProcessedMetadata

SpecAugment == InitAugment /\ [][NextAugment]_vars

----------------------------------------------------------------------------
\* model_training: load_data on a features directory, with or without a
\* target file

\* samples in the features directory
MaxSamples == 2

\* the path of a feature dictionary that names the target file
TargetPath ==
  <<"t","/","c","h","o","r","d","_","C","4","_","1",".","w","a","v">>

\* the feature dictionaries of the pickles: extracted with feature_type
\* 'all', with include_raw alone, and one that holds a 'file_path' as well;
\* file_path is the value of that key
FeatureDicts ==
  { [keys |-> {"mfcc", "chroma", "contrast", "mel"}, file_path |-> << >>],
    [keys |-> {"raw"}, file_path |-> << >>],
    [keys |-> {"mfcc", "chroma", "contrast", "mel", "file_path"},
     file_path |-> TargetPath] }

\* the feature types of the command line, and one that is none of them
FeatureTypes == {"raw", "mfcc", "chroma", "contrast", "mel", "all", "other"}

\* the labels of the samples: notes, a chord, a key dictionary and a string
\* process_labels raises on
SampleLabels ==
  { StrLabel(<<"C","4">>), StrLabel(<<"D","4">>),
    StrLabel(<<"C","4","-","E","4","-","G","4">>),
    DictLabel(<<"G">>), StrLabel(<<"-">>) }

\* target_file of the command line: none, a chord recording, a file that
\* cannot be loaded, a file whose name holds no chord
NoTarget == [given |-> FALSE, path |-> << >>, readable |-> FALSE]

TargetFiles ==
  { NoTarget,
    [given |-> TRUE, path |-> TargetPath, readable |-> TRUE],
    [given |-> TRUE, path |-> TargetPath, readable |-> FALSE],
    [given |-> TRUE, path |-> <<"d","/","a",".","w","a","v">>,
     readable |-> TRUE] }

\* a features directory with train and validation subdirectories: the first
\* k samples are those of train
SplitDir(f, l, k) ==
  [has_subdirs |-> TRUE,
   train_features |-> SubSeq(f, 1, k), train_labels |-> SubSeq(l, 1, k),
   val_features |-> SubSeq(f, k + 1, Len(f)),
   val_labels |-> SubSeq(l, k + 1, Len(l)),
   all_features |-> << >>, all_labels |-> << >>]

\* a features directory that holds features.pkl and labels.pkl itself
FlatDir(f, l) ==
  [has_subdirs |-> FALSE,
   train_features |-> << >>, train_labels |-> << >>,
   val_features |-> << >>, val_labels |-> << >>,
   all_features |-> f, all_labels |-> l]

\* the lists after the directory was read: split_idx = int(len(all_features)
\* * 0.8) when there are no subdirectories
load_lists(dir) ==
  IF dir.has_subdirs
  THEN [train_features |-> dir.train_features, train_labels |-> dir.train_labels,
        val_features |-> dir.val_features, val_labels |-> dir.val_labels]
  ELSE LET split_idx == (Len(dir.all_features) * 8) \div 10
       IN [train_features |-> SubSeq(dir.all_features, 1, split_idx),
           train_labels |-> SubSeq(dir.all_labels, 1, split_idx),
           val_features |-> SubSeq(dir.all_features, split_idx + 1,
                                   Len(dir.all_features)),
           val_labels |-> SubSeq(dir.all_labels, split_idx + 1,
                                 Len(dir.all_labels))]

\* 'file_path' in feature and target_file_basename in feature['file_path']
names_target(feature, target_file_basename) ==
  "file_path" \in feature.keys /\ str_in(target_file_basename, feature.file_path)

\* list.pop(i), with i a 1-based position
pop(list, i) == SubSeq(list, 1, i - 1) \o SubSeq(list, i + 1, Len(list))

\* the keys of a feature dictionary, in the order feature_type 'all'
\* concatenates them
available(f) ==
  SelectSeq(<<"mfcc", "chroma", "contrast">>, LAMBDA key : key \in f.keys)

\* the row a feature dictionary contributes, or none: its index in the list
\* and the parts the row is built from
feature_row(features, i, type) ==
  IF type = "all"
  THEN IF available(features[i]) = << >> THEN << >>
       ELSE << [sample |-> i, parts |-> available(features[i])] >>
  ELSE IF type \in features[i].keys
       THEN << [sample |-> i, parts |-> <<type>>] >>
       ELSE << >>

RECURSIVE feature_rows(_, _, _)
feature_rows(features, n, type) ==
  IF n = 0 THEN << >>
  ELSE feature_rows(features, n - 1, type) \o feature_row(features, n, type)

\* process_features(features_list, feature_type)
process_features(features, type) ==
  IF type \in {"raw", "mfcc", "chroma", "contrast", "mel", "all"}
  THEN [status |-> "returned", exc |-> "none",
        X |-> feature_rows(features, Len(features), type)]
  ELSE [status |-> "raised", exc |-> "ValueError", X |-> << >>]

\* model_evaluation.extract_features_from_audio(audio_path, feature_type):
\* librosa.load raises on a file it cannot read; the dictionary holds 'raw'
\* and the features of the type, and process_features of that one dictionary
\* is returned
extract_features_from_audio(target, type) ==
  IF ~target.readable
  THEN [status |-> "raised", exc |-> "Exception", X |-> << >>]
  ELSE process_features(
         << [keys |-> {"raw"}
                        \cup (IF type \in {"mfcc", "all"} THEN {"mfcc"} ELSE {})
                        \cup (IF type \in {"chroma", "all"} THEN {"chroma"} ELSE {})
                        \cup (IF type \in {"contrast", "all"} THEN {"contrast"} ELSE {})
                        \cup (IF type \in {"mel", "all"} THEN {"mel"} ELSE {}),
             file_path |-> << >>] >>,
         type)

\* the try block that adds the target file: features[0], features[1] and
\* features[2] are read for the types that name them, and an index past the
\* rows of features raises IndexError into the except clause
target_feature_dict(target, type) ==
  LET features == extract_features_from_audio(target, type)
      read == (IF type \in {"mfcc", "all"} THEN {0} ELSE {})
                \cup (IF type \in {"chroma", "all"} THEN {1} ELSE {})
                \cup (IF type \in {"contrast", "all"} THEN {2} ELSE {})
  IN IF features.status = "raised" THEN [added |-> FALSE, dict |-> << >>]
     ELSE IF \E k \in read : k >= Len(features.X)
     THEN [added |-> FALSE, dict |-> << >>]
     ELSE [added |-> TRUE,
           dict |-> << [keys |-> {"file_path", "mfcc", "chroma", "contrast"},
                        file_path |-> target.path] >>]

\* chord_part of the name of the target file, or "unknown"
target_label(file_name) ==
  IF str_in(<<"c","h","o","r","d","_">>, file_name)
       /\ contains(SubSeq(file_name, 7, Len(file_name)), "_")
  THEN StrLabel(split(SubSeq(file_name, 7, Len(file_name)), "_")[1])
  ELSE StrLabel(unknown)

\* if target_file: the target moved from the validation lists to the
\* training lists, left where it is, or extracted and appended
ensure_target(lists, type, target) ==
  IF ~target.given \/ target.path = << >> THEN lists
  ELSE LET target_file_basename == basename(target.path)
           in_val == {i \in 1..Len(lists.val_features) :
                        names_target(lists.val_features[i],
                                     target_file_basename)}
           target_in_train ==
             \E i \in 1..Len(lists.train_features) :
               names_target(lists.train_features[i], target_file_basename)
       IN IF in_val # {}
          THEN LET target_val_idx ==
                     CHOOSE i \in in_val : \A j \in in_val : i <= j
               IN [train_features |->
                     Append(lists.train_features,
                            lists.val_features[target_val_idx]),
                   train_labels |->
                     Append(lists.train_labels,
                            lists.val_labels[target_val_idx]),
                   val_features |-> pop(lists.val_features, target_val_idx),
                   val_labels |-> pop(lists.val_labels, target_val_idx)]
          ELSE IF target_in_train THEN lists
          ELSE LET extracted == target_feature_dict(target, type)
               IN IF extracted.added
                  THEN [lists EXCEPT
                          !.train_features = @ \o extracted.dict,
                          !.train_labels =
                            Append(@, target_label(basename(target.path)))]
                  ELSE lists

\* label_counts[label]: a dict is not hashable
count_labels_raises(labels) ==
  \E i \in 1..Len(labels) : labels[i].type = "dict"

\* what load_data raises
load_raised(exc) ==
  [status |-> "raised", exc |-> exc,
   X_train |-> << >>, y_train |-> << >>, X_val |-> << >>, y_val |-> << >>,
   train_labels |-> << >>, val_labels |-> << >>]

\* load_data(features_dir, feature_type, target_file): the four values it
\* returns, with the label lists they were made from
load_data(dir, type, target) ==
  LET lists == ensure_target(load_lists(dir), type, target)
      X_train == process_features(lists.train_features, type)
      X_val == process_features(lists.val_features, type)
      y_train == train_process_labels(lists.train_labels)
      y_val == train_process_labels(lists.val_labels)
  IN IF X_train.status = "raised" THEN load_raised(X_train.exc)
     ELSE IF X_val.status = "raised" THEN load_raised(X_val.exc)
     ELSE IF count_labels_raises(lists.train_labels)
     THEN load_raised("TypeError")
     ELSE IF y_train.status = "raised" THEN load_raised(y_train.exc)
     ELSE IF y_val.status = "raised" THEN load_raised(y_val.exc)
     ELSE [status |-> "returned", exc |-> "none",
           X_train |-> X_train.X, y_train |-> y_train.multi_hot_labels,
           X_val |-> X_val.X, y_val |-> y_val.multi_hot_labels,
           train_labels |-> lists.train_labels,
           val_labels |-> lists.val_labels]

InitLoad ==
  /\ NoLabels /\ NoPath /\ NoScores
  /\ NoChordTest /\ NoExtraction /\ NoAugment
  /\ \E n \in 1..MaxSamples :
       \E f \in [1..n -> FeatureDicts], l \in [1..n -> SampleLabels] :
         \/ \E k \in 0..n : features_dir = SplitDir(f, l, k)
         \/ features_dir = FlatDir(f, l)
  /\ feature_type \in FeatureTypes
  /\ target_file \in TargetFiles
  /\ dataset = Pending

\* X_train, y_train, X_val, y_val = load_data(data_dir, feature_type,
\* target_file)
LoadData ==
  /\ dataset = Pending
  /\ dataset' = load_data(features_dir, feature_type, target_file)
  /\ UNCHANGED <<features_dir, feature_type, target_file>>
  /\ UNCHANGED outsideLoad

NextLoad == LoadData

SpecLoad == InitLoad /\ [][NextLoad]_vars

----------------------------------------------------------------------------
\* feature_extraction: runs of the script over one input directory and one
\* output directory, started through main or by a caller of process_dataset.
\* process_dataset calls process_directory once over the whole input
\* directory, or once over its train and once over its validation
\* subdirectory, each call with an output directory of its own.

\* audio files in an input directory
MaxFiles == 11

\* runs over the same directories
MaxRuns == 2

\* if len(processed_files) % 10 == 0: save_checkpoint(...)
CHECKPOINT_PERIOD == 10

\* a file that does not exist, with the empty value of its kind
AbsentSet == [state |-> "absent", value |-> {}]

AbsentSeq == [state |-> "absent", value |-> << >>]

\* a file after open(..., 'w'): it exists and is empty, so loading it raises
TruncatedSet == [state |-> "unreadable", value |-> {}]

TruncatedSeq == [state |-> "unreadable", value |-> << >>]

\* a file after json.dump / pickle.dump of a value
Dumped(value) == [state |-> "ok", value |-> value]

\* an output directory before the first run
EmptyDir ==
  [checkpoint |-> AbsentSet, features |-> AbsentSeq, labels |-> AbsentSeq,
   metadata |-> AbsentSeq]

\* the audio files of a directory: every file extractable, or one file for
\* which extract_features returns None
FileLists ==
  {[i \in 1..n |-> "ok"] : n \in {1, 2, MaxFiles}}
    \cup { <<"ok", "bad", "ok">> }

\* the input directory of process_dataset, as the audio files of each call
\* of process_directory it makes: one call when train and validation do not
\* both exist, else a call over train and a call over validation
Datasets ==
  {<< files >> : files \in FileLists}
    \cup { << <<"ok", "ok">>, <<"ok">> >> }

\* how the process was started: through main, which installs signal_handler
\* for SIGINT, or by a caller of process_dataset under Python's default
\* handler, which raises KeyboardInterrupt
Entries == {"main", "call"}

\* files_to_process = [f for f in audio_files if f not in processed_files]
files_to_process(files, processed) ==
  SelectSeq([i \in 1..Len(files) |-> i], LAMBDA f : f \notin processed)

\* save_checkpoint(output_dir, processed_files, features_list, labels_list)
save_checkpoint(dir, processed, features, labels) ==
  [dir EXCEPT !.checkpoint = Dumped(processed),
              !.features = Dumped(features),
              !.labels = Dumped(labels)]

\* the statements of save_checkpoint, each file opened and then written
SaveSteps ==
  << "open_checkpoint", "dump_checkpoint", "open_features", "dump_features",
     "open_labels", "dump_labels" >>

\* the statements of the try block of process_directory; "extract" is the
\* for statement with the call of extract_features
LoopSteps ==
  { "extract", "append_features", "append_label", "add_processed" }
    \cup {SaveSteps[k] : k \in 1..Len(SaveSteps)}

\* the statements after the try block: each file opened (after the prints
\* that precede the open) and then written, and the last print
OutputSteps ==
  << "open_final_features", "dump_final_features", "open_final_labels",
     "dump_final_labels", "open_metadata", "dump_metadata",
     "print_metadata" >>

\* the process has ended: by sys.exit or by returning ("exited"), or by a
\* KeyboardInterrupt that left process_dataset ("raised")
Ended == {"exited", "raised"}

\* a process at the first statement of a call of process_directory, the
\* call-th that process_dataset makes, dir being the output directory of the
\* call as it is found: processed_files = set(), features_list = [],
\* labels_list = []; past_load records that the checkpoint block was left
started(run, entry, call, dir) ==
  [pc |-> "start", run |-> run, entry |-> entry, call |-> call,
   processed_files |-> {}, features_list |-> << >>, labels_list |-> << >>,
   files_to_process |-> << >>, at_start |-> dir, past_load |-> FALSE,
   in_except |-> FALSE, interrupted |-> FALSE, exit_status |-> 0]

\* the audio files os.walk finds in input_dir of the call under way
audio_files == input_dirs[extraction.call]

\* the files in output_dir of the call under way
output_dir == output_dirs[extraction.call]

InitExtract ==
  /\ NoLabels /\ NoPath /\ NoScores
  /\ NoChordTest /\ NoLoad /\ NoAugment
  /\ input_dirs \in Datasets
  /\ output_dirs = [call \in DOMAIN input_dirs |-> EmptyDir]
  /\ \E entry \in Entries : extraction = started(1, entry, 1, EmptyDir)

\* if os.path.exists(checkpoint_file):
CheckpointExists ==
  /\ extraction.pc = "start"
  /\ extraction' =
       IF output_dir.checkpoint.state = "absent"
       THEN [extraction EXCEPT !.pc = "filter", !.past_load = TRUE]
       ELSE [extraction EXCEPT !.pc = "load_checkpoint"]
  /\ UNCHANGED <<input_dirs, output_dirs>>
  /\ UNCHANGED outsideExtract

\* checkpoint_data = json.load(f);
\* processed_files = set(checkpoint_data.get('processed_files', []));
\* json.load of an empty file raises, and the except clause is entered
LoadCheckpoint ==
  /\ extraction.pc = "load_checkpoint"
  /\ extraction' =
       IF output_dir.checkpoint.state = "ok"
       THEN [extraction EXCEPT !.pc = "exists_pickles",
                               !.processed_files = output_dir.checkpoint.value]
       ELSE [extraction EXCEPT !.pc = "except_load"]
  /\ UNCHANGED <<input_dirs, output_dirs>>
  /\ UNCHANGED outsideExtract

\* if os.path.exists(features_file) and os.path.exists(labels_file):
PicklesExist ==
  /\ extraction.pc = "exists_pickles"
  /\ extraction' =
       IF /\ output_dir.features.state # "absent"
          /\ output_dir.labels.state # "absent"
       THEN [extraction EXCEPT !.pc = "load_features"]
       ELSE [extraction EXCEPT !.pc = "resuming"]
  /\ UNCHANGED <<input_dirs, output_dirs>>
  /\ UNCHANGED outsideExtract

\* features_list = pickle.load(f_feat); pickle.load of an empty file raises
LoadFeatures ==
  /\ extraction.pc = "load_features"
  /\ extraction' =
       IF output_dir.features.state = "ok"
       THEN [extraction EXCEPT !.pc = "load_labels",
                               !.features_list = output_dir.features.value]
       ELSE [extraction EXCEPT !.pc = "except_load"]
  /\ UNCHANGED <<input_dirs, output_dirs>>
  /\ UNCHANGED outsideExtract

\* labels_list = pickle.load(f_lab); pickle.load of an empty file raises
LoadLabels ==
  /\ extraction.pc = "load_labels"
  /\ extraction' =
       IF output_dir.labels.state = "ok"
       THEN [extraction EXCEPT !.pc = "resuming",
                               !.labels_list = output_dir.labels.value]
       ELSE [extraction EXCEPT !.pc = "except_load"]
  /\ UNCHANGED <<input_dirs, output_dirs>>
  /\ UNCHANGED outsideExtract

\* print(f"Loaded ...") and print("Resuming from checkpoint ..."), the last
\* statements of the try of the checkpoint block
Resuming ==
  /\ extraction.pc = "resuming"
  /\ extraction' = [extraction EXCEPT !.pc = "filter", !.past_load = TRUE]
  /\ UNCHANGED <<input_dirs, output_dirs>>
  /\ UNCHANGED outsideExtract

\* except Exception as e: print(...); processed_files = set()
ExceptLoad ==
  /\ extraction.pc = "except_load"
  /\ extraction' =
       [extraction EXCEPT !.pc = "filter", !.past_load = TRUE,
                          !.processed_files = {}]
  /\ UNCHANGED <<input_dirs, output_dirs>>
  /\ UNCHANGED outsideExtract

\* files_to_process = [f for f in audio_files if f not in processed_files]
FilterFiles ==
  /\ extraction.pc = "filter"
  /\ extraction' =
       [extraction EXCEPT !.pc = "print_new_files",
                          !.files_to_process =
                             files_to_process(audio_files,
                                              extraction.processed_files)]
  /\ UNCHANGED <<input_dirs, output_dirs>>
  /\ UNCHANGED outsideExtract

\* print(f"Processing {len(files_to_process)} new files."), the statement
\* before try:, still outside the try block
PrintNewFiles ==
  /\ extraction.pc = "print_new_files"
  /\ extraction' = [extraction EXCEPT !.pc = "extract"]
  /\ UNCHANGED <<input_dirs, output_dirs>>
  /\ UNCHANGED outsideExtract

\* features = extract_features(audio_path, ...): None for a file that cannot
\* be read, and the loop goes on to the next file
ExtractFeatures ==
  /\ extraction.pc = "extract"
  /\ extraction.files_to_process # << >>
  /\ extraction' =
       IF audio_files[Head(extraction.files_to_process)] = "ok"
       THEN [extraction EXCEPT !.pc = "append_features"]
       ELSE [extraction EXCEPT
               !.files_to_process = Tail(extraction.files_to_process)]
  /\ UNCHANGED <<input_dirs, output_dirs>>
  /\ UNCHANGED outsideExtract

\* features_list.append(features)
AppendFeatures ==
  /\ extraction.pc = "append_features"
  /\ extraction' =
       [extraction EXCEPT
          !.pc = "append_label",
          !.features_list =
             Append(extraction.features_list, Head(extraction.files_to_process))]
  /\ UNCHANGED <<input_dirs, output_dirs>>
  /\ UNCHANGED outsideExtract

\* labels_list.append(label)
AppendLabel ==
  /\ extraction.pc = "append_label"
  /\ extraction' =
       [extraction EXCEPT
          !.pc = "add_processed",
          !.labels_list =
             Append(extraction.labels_list, Head(extraction.files_to_process))]
  /\ UNCHANGED <<input_dirs, output_dirs>>
  /\ UNCHANGED outsideExtract

\* processed_files.add(audio_path); if len(processed_files) % 10 == 0: ...
AddProcessed ==
  /\ extraction.pc = "add_processed"
  /\ LET added == extraction.processed_files
                    \cup {Head(extraction.files_to_process)}
     IN extraction' =
          [extraction EXCEPT
             !.pc = IF Cardinality(added) % CHECKPOINT_PERIOD = 0
                    THEN SaveSteps[1] ELSE "extract",
             !.processed_files = added,
             !.files_to_process = Tail(extraction.files_to_process)]
  /\ UNCHANGED <<input_dirs, output_dirs>>
  /\ UNCHANGED outsideExtract

\* with open(..., 'w') as f: of save_checkpoint, for each of its files
OpenCheckpointFile ==
  /\ extraction.pc \in {"open_checkpoint", "open_features", "open_labels"}
  /\ output_dirs' =
       IF extraction.pc = "open_checkpoint"
       THEN [output_dirs EXCEPT ![extraction.call].checkpoint = TruncatedSet]
       ELSE IF extraction.pc = "open_features"
       THEN [output_dirs EXCEPT ![extraction.call].features = TruncatedSeq]
       ELSE [output_dirs EXCEPT ![extraction.call].labels = TruncatedSeq]
  /\ extraction' =
       [extraction EXCEPT
          !.pc = IF extraction.pc = "open_checkpoint" THEN "dump_checkpoint"
                 ELSE IF extraction.pc = "open_features" THEN "dump_features"
                 ELSE "dump_labels"]
  /\ UNCHANGED input_dirs
  /\ UNCHANGED outsideExtract

\* json.dump / pickle.dump of save_checkpoint, for each of its files; the
\* call returns into the loop, or into the except clause before sys.exit(1)
DumpCheckpointFile ==
  /\ extraction.pc \in {"dump_checkpoint", "dump_features", "dump_labels"}
  /\ LET saved == save_checkpoint(output_dir, extraction.processed_files,
                                  extraction.features_list,
                                  extraction.labels_list)
     IN output_dirs' =
          IF extraction.pc = "dump_checkpoint"
          THEN [output_dirs EXCEPT
                  ![extraction.call].checkpoint = saved.checkpoint]
          ELSE IF extraction.pc = "dump_features"
          THEN [output_dirs EXCEPT
                  ![extraction.call].features = saved.features]
          ELSE [output_dirs EXCEPT ![extraction.call].labels = saved.labels]
  /\ extraction' =
       [extraction EXCEPT
          !.pc = IF extraction.pc = "dump_checkpoint" THEN "open_features"
                 ELSE IF extraction.pc = "dump_features" THEN "open_labels"
                 ELSE IF extraction.in_except THEN "sys_exit"
                 ELSE "extract"]
  /\ UNCHANGED input_dirs
  /\ UNCHANGED outsideExtract

\* the for statement finds no file left: the try block is left
EndLoop ==
  /\ extraction.pc = "extract"
  /\ extraction.files_to_process = << >>
  /\ extraction' = [extraction EXCEPT !.pc = OutputSteps[1]]
  /\ UNCHANGED <<input_dirs, output_dirs>>
  /\ UNCHANGED outsideExtract

\* with open(features_file, 'wb'), with open(labels_file, 'wb') and
\* with open(metadata_file, 'w') after the loop
OpenOutputFile ==
  /\ extraction.pc \in {"open_final_features", "open_final_labels",
                        "open_metadata"}
  /\ output_dirs' =
       IF extraction.pc = "open_final_features"
       THEN [output_dirs EXCEPT ![extraction.call].features = TruncatedSeq]
       ELSE IF extraction.pc = "open_final_labels"
       THEN [output_dirs EXCEPT ![extraction.call].labels = TruncatedSeq]
       ELSE [output_dirs EXCEPT ![extraction.call].metadata = TruncatedSeq]
  /\ extraction' =
       [extraction EXCEPT
          !.pc = IF extraction.pc = "open_final_features"
                 THEN "dump_final_features"
                 ELSE IF extraction.pc = "open_final_labels"
                 THEN "dump_final_labels"
                 ELSE "dump_metadata"]
  /\ UNCHANGED input_dirs
  /\ UNCHANGED outsideExtract

\* pickle.dump(features_list, f), pickle.dump(labels_list, f) and
\* json.dump(metadata, f) after the loop (checkpoint.json is not written)
DumpOutputFile ==
  /\ extraction.pc \in {"dump_final_features", "dump_final_labels",
                        "dump_metadata"}
  /\ output_dirs' =
       IF extraction.pc = "dump_final_features"
       THEN [output_dirs EXCEPT
               ![extraction.call].features = Dumped(extraction.features_list)]
       ELSE IF extraction.pc = "dump_final_labels"
       THEN [output_dirs EXCEPT
               ![extraction.call].labels = Dumped(extraction.labels_list)]
       ELSE [output_dirs EXCEPT
               ![extraction.call].metadata =
                  Dumped(<< Len(extraction.features_list) >>)]
  /\ extraction' =
       [extraction EXCEPT
          !.pc = IF extraction.pc = "dump_final_features"
                 THEN "open_final_labels"
                 ELSE IF extraction.pc = "dump_final_labels"
                 THEN "open_metadata"
                 ELSE "print_metadata"]
  /\ UNCHANGED input_dirs
  /\ UNCHANGED outsideExtract

\* print(f"Metadata saved to {metadata_file}"), after which
\* process_directory returns into process_dataset: the call over validation
\* follows the call over train, with its own input and output directory;
\* after its last call process_dataset returns and the process ends
\* with status 0
ReturnToDataset ==
  /\ extraction.pc = "print_metadata"
  /\ extraction' =
       IF extraction.call < Len(input_dirs)
       THEN started(extraction.run, extraction.entry, extraction.call + 1,
                    output_dirs[extraction.call + 1])
       ELSE [extraction EXCEPT !.pc = "exited", !.exit_status = 0]
  /\ UNCHANGED <<input_dirs, output_dirs>>
  /\ UNCHANGED outsideExtract

\* SIGINT inside the try block, the for statement that ends the loop
\* included, and not inside its except clause
Interruptible ==
  /\ extraction.pc \in LoopSteps
  /\ ~extraction.in_except

\* SIGINT in a process started through main, at any statement of
\* process_directory: signal_handler calls sys.exit(0); SystemExit is not
\* caught by except KeyboardInterrupt nor by except Exception
SignalHandler ==
  /\ extraction.pc \notin Ended
  /\ extraction.entry = "main"
  /\ extraction' =
       [extraction EXCEPT !.pc = "exited", !.interrupted = TRUE,
                          !.exit_status = 0]
  /\ UNCHANGED <<input_dirs, output_dirs>>
  /\ UNCHANGED outsideExtract

\* SIGINT under the default handler inside the try block: the except
\* KeyboardInterrupt clause starts, at the first statement of its
\* save_checkpoint
KeyboardInterrupt ==
  /\ Interruptible
  /\ extraction.entry = "call"
  /\ extraction' =
       [extraction EXCEPT !.pc = SaveSteps[1], !.in_except = TRUE,
                          !.interrupted = TRUE]
  /\ UNCHANGED <<input_dirs, output_dirs>>
  /\ UNCHANGED outsideExtract

\* sys.exit(1) at the end of the except clause
SysExit ==
  /\ extraction.pc = "sys_exit"
  /\ extraction' = [extraction EXCEPT !.pc = "exited", !.exit_status = 1]
  /\ UNCHANGED <<input_dirs, output_dirs>>
  /\ UNCHANGED outsideExtract

\* SIGINT under the default handler outside the try block (in the
\* checkpoint block, whose except Exception does not catch it, at the
\* statements before try:, or in the statements after the loop) or inside
\* the except clause: the KeyboardInterrupt leaves process_directory, nothing
\* more is written and sys.exit(1) is not reached
UncaughtKeyboardInterrupt ==
  /\ extraction.pc \notin Ended
  /\ ~Interruptible
  /\ extraction.entry = "call"
  /\ extraction' =
       [extraction EXCEPT !.pc = "raised", !.interrupted = TRUE]
  /\ UNCHANGED <<input_dirs, output_dirs>>
  /\ UNCHANGED outsideExtract

\* the script is run again over the same directories
StartRun ==
  /\ extraction.pc \in Ended
  /\ extraction.run < MaxRuns
  /\ \E entry \in Entries :
       extraction' = started(extraction.run + 1, entry, 1, output_dirs[1])
  /\ UNCHANGED <<input_dirs, output_dirs>>
  /\ UNCHANGED outsideExtract

NextExtract ==
  \/ CheckpointExists
  \/ LoadCheckpoint
  \/ PicklesExist
  \/ LoadFeatures
  \/ LoadLabels
  \/ Resuming
  \/ ExceptLoad
  \/ FilterFiles
  \/ PrintNewFiles
  \/ ExtractFeatures
  \/ AppendFeatures
  \/ AppendLabel
  \/ AddProcessed
  \/ OpenCheckpointFile
  \/ DumpCheckpointFile
  \/ EndLoop
  \/ OpenOutputFile
  \/ DumpOutputFile
  \/ ReturnToDataset
  \/ SignalHandler
  \/ KeyboardInterrupt
  \/ SysExit
  \/ UncaughtKeyboardInterrupt
  \/ StartRun

SpecExtract == InitExtract /\ [][NextExtract]_vars

----------------------------------------------------------------------------
\* Properties

\* the indices of a row that are set to 1
Ones(row) == {c \in DOMAIN row : row[c] = 1}

\* the batch holds the one string s
OnlyStr(s) == labels_list = << StrLabel(s) >>

EvalReturned == eval_result.status = "returned"

TrainReturned == train_result.status = "returned"

\* a hyphen-separated part of s is empty
HasEmptyPart(s) ==
  /\ contains(s, "-")
  /\ \/ s[1] = "-"
     \/ s[Len(s)] = "-"
     \/ \E i \in 1..(Len(s) - 1) : s[i] = "-" /\ s[i + 1] = "-"

\* the strings the fallback is promised for: empty, first character not a
\* note letter, or an empty hyphen-separated part
Malformed(s) == s = << >> \/ s[1] \notin NoteLetters \/ HasEmptyPart(s)

\* C1: neither encoder raises on a string label, and a string that is empty,
\* starts with a character outside A..G or has an empty hyphen-separated part
\* is encoded as class index 48 by both.
C1_StringsNeverRaise ==
  \A i \in 1..Len(labels_list) :
    labels_list[i].type = "str" =>
      /\ eval_result.status # "raised"
      /\ train_result.status # "raised"
      /\ (Malformed(labels_list[i].str) /\ EvalReturned)
           => eval_result.processed_labels[i] = 48
      /\ (Malformed(labels_list[i].str) /\ TrainReturned)
           => Ones(train_result.multi_hot_labels[i]) = {48}

\* C2: whenever an encoder returns, the index chosen by the one-hot encoder
\* and every index set by the multi-hot encoder lies in 0..95, and each row
\* is a vector over exactly the 96 classes with at least one index set.
C2_IndicesInRange ==
  /\ EvalReturned =>
       \A i \in 1..Len(labels_list) :
         /\ eval_result.processed_labels[i] \in 0..95
         /\ DOMAIN eval_result.one_hot_labels[i] = 0..95
         /\ Ones(eval_result.one_hot_labels[i]) = {eval_result.processed_labels[i]}
  /\ TrainReturned =>
       \A i \in 1..Len(labels_list) :
         /\ DOMAIN train_result.multi_hot_labels[i] = 0..95
         /\ Ones(train_result.multi_hot_labels[i]) # {}
         /\ Ones(train_result.multi_hot_labels[i]) \subseteq 0..95

\* C2 witness: the label "B9", whose octave digit is clamped, encoded by both
\* encoders as the last class 95
C2_Witness ==
  /\ OnlyStr(<<"B", "9">>)
  /\ EvalReturned /\ eval_result.processed_labels = <<95>>
  /\ TrainReturned /\ Ones(train_result.multi_hot_labels[1]) = {95}

\* C3: a canonical pitch name followed by an octave digit 0..7 is encoded to
\* an index in 0..95 and decoded back to the same token; the 96 tokens get 96
\* distinct indices that cover 0..95.
C3_RoundTrip ==
  \A t \in CanonicalTokens :
    OnlyStr(t) =>
      /\ EvalReturned =>
           /\ eval_result.processed_labels[1] \in 0..95
           /\ {eval_label(StrLabel(u)).class_index : u \in CanonicalTokens} = 0..95
           /\ \A u \in CanonicalTokens :
                eval_label(StrLabel(u)).class_index = eval_result.processed_labels[1]
                  => u = t
      /\ prediction.status = "returned" =>
           /\ prediction.predicted_class[1] = eval_result.processed_labels[1]
           /\ prediction.predicted_note[1] = t

\* C3 witness: "A#3" -> 46 -> "A#3"
C3_Witness ==
  /\ OnlyStr(<<"A", "#", "3">>)
  /\ EvalReturned /\ eval_result.processed_labels = <<46>>
  /\ prediction.status = "returned"
  /\ prediction.predicted_note = << <<"A", "#", "3">> >>

\* every hyphen-separated part of s starts with a letter in A..G
AllPartsNotes(s) ==
  /\ s # << >>
  /\ s[1] \in NoteLetters
  /\ \A i \in 1..Len(s) : s[i] = "-" => (i < Len(s) /\ s[i + 1] \in NoteLetters)

\* a hyphen-joined chord label
IsChordLabel(s) == contains(s, "-") /\ AllPartsNotes(s)

\* the text before the first hyphen (all of s when it has none)
Root(s) ==
  IF contains(s, "-")
  THEN SubSeq(s, 1, (CHOOSE i \in 1..Len(s) :
                       s[i] = "-" /\ \A j \in 1..(i - 1) : s[j] # "-") - 1)
  ELSE s

\* the position of a letter's pitch among the twelve canonical names
Natural(letter) == (CHOOSE k \in 1..12 : NOTE_NAMES[k] = << letter >>) - 1

TestLabels ==
  << StrLabel(<<"C","4">>), StrLabel(<<"C","4","-","E","4","-","G","4">>),
     StrLabel(<<"D","4">>), StrLabel(<<"D","4","-","F","#","4","-","A","4">>) >>

\* C4: the one-hot encoder gives a hyphen-joined chord label whose parts all
\* start with a letter in A..G the class index its first part gets as a
\* stand-alone label; "C4" and "C4-E4-G4" give 48 and the list
\* ["C4", "C4-E4-G4", "D4", "D4-F#4-A4"] gives [48, 48, 50, 50].
C4_RootReduction ==
  EvalReturned =>
    /\ \A i \in 1..Len(labels_list) :
         (labels_list[i].type = "str" /\ IsChordLabel(labels_list[i].str)) =>
           /\ eval_result.processed_labels[i]
                = eval_label(StrLabel(Root(labels_list[i].str))).class_index
           /\ \A j \in 1..Len(labels_list) :
                labels_list[j] = StrLabel(Root(labels_list[i].str))
                  => eval_result.processed_labels[i] = eval_result.processed_labels[j]
    /\ OnlyStr(<<"C","4">>) => eval_result.processed_labels = <<48>>
    /\ OnlyStr(<<"C","4","-","E","4","-","G","4">>)
         => eval_result.processed_labels = <<48>>
    /\ labels_list = TestLabels => eval_result.processed_labels = <<48, 48, 50, 50>>

\* C4 witness: the four-label list of the repository's test, encoded
C4_Witness ==
  /\ labels_list = TestLabels
  /\ EvalReturned /\ eval_result.processed_labels = <<48, 48, 50, 50>>

\* the positions after the first character of r that hold a decimal digit
DigitPositions(r) == {i \in 2..Len(r) : r[i] \in DigitChars}

\* the position of the octave digit of the root of s
OctavePosition(s) ==
  CHOOSE i \in DigitPositions(Root(s)) : \A j \in DigitPositions(Root(s)) : i <= j

\* C5: for a note label or a hyphen-joined chord label whose octave digit (of
\* the root, for a chord) is in 0..7, replacing that digit by another digit
\* o2 in 0..7 moves the one-hot index by exactly 12 * (o2 - o1); C4 -> 48,
\* C5 -> 60, D4-G4 -> 50, D6-G6 -> 74, C4-E4-G4 -> 48, C5-E5-G5 -> 60.
C5_OctaveSensitivity ==
  EvalReturned =>
    /\ \A i \in 1..Len(labels_list) :
         LET s == labels_list[i].str
         IN (/\ labels_list[i].type = "str"
             /\ AllPartsNotes(s)
             /\ DigitPositions(Root(s)) # {}
             /\ int(s[OctavePosition(s)]) \in 0..7) =>
              \A o2 \in 0..7 :
                eval_label(StrLabel([s EXCEPT ![OctavePosition(s)] = str(o2)[1]])).class_index
                  = eval_result.processed_labels[i]
                      + 12 * (o2 - int(s[OctavePosition(s)]))
    /\ OnlyStr(<<"C","4">>) => eval_result.processed_labels = <<48>>
    /\ OnlyStr(<<"C","5">>) => eval_result.processed_labels = <<60>>
    /\ OnlyStr(<<"D","4","-","G","4">>) => eval_result.processed_labels = <<50>>
    /\ OnlyStr(<<"D","6","-","G","6">>) => eval_result.processed_labels = <<74>>
    /\ OnlyStr(<<"C","4","-","E","4","-","G","4">>)
         => eval_result.processed_labels = <<48>>
    /\ OnlyStr(<<"C","5","-","E","5","-","G","5">>)
         => eval_result.processed_labels = <<60>>

\* C5 witness: the chord "D6-G6" encoded as 74
C5_Witness ==
  /\ OnlyStr(<<"D","6","-","G","6">>)
  /\ EvalReturned /\ eval_result.processed_labels = <<74>>

\* C6: for every string label the index chosen by the one-hot encoder is one
\* of the indices the multi-hot encoder sets for the same label.
C6_OneHotIndexAmongMultiHot ==
  (EvalReturned /\ TrainReturned) =>
    \A i \in 1..Len(labels_list) :
      labels_list[i].type = "str" =>
        train_result.multi_hot_labels[i][eval_result.processed_labels[i]] = 1

\* flat spellings and the sharp name of the same pitch
FlatAliases ==
  (<<"D","b">> :> <<"C","#">>) @@ (<<"E","b">> :> <<"D","#">>) @@
  (<<"G","b">> :> <<"F","#">>) @@ (<<"A","b">> :> <<"G","#">>) @@
  (<<"B","b">> :> <<"A","#">>)

\* the recognised note names: twelve canonical names and five flat aliases
RecognisedNames == {NOTE_NAMES[k] : k \in 1..12} \cup DOMAIN FlatAliases

\* the semitone 0..11 of a recognised name
PitchClass(name) ==
  LET sharp == IF name \in DOMAIN FlatAliases THEN FlatAliases[name] ELSE name
  IN (CHOOSE k \in 1..12 : NOTE_NAMES[k] = sharp) - 1

\* the class index semitone + 12 * octave of a recognised name n followed by
\* an optional octave digit d (no digit: octave 4; digits 8 and 9: octave 7)
NamedIndex(n, d) ==
  PitchClass(n)
    + 12 * (IF d = << >> THEN 4 ELSE IF int(d[1]) > 7 THEN 7 ELSE int(d[1]))

\* the octave of a recognised note: absent, or one decimal digit 0..9
OctaveSuffixes ==
  {<< >>} \cup {<<d>> : d \in {"0", "1", "2", "3", "4", "5", "6", "7", "8", "9"}}

\* the recognised notes and their class indices
RecognisedNotes ==
  [p \in {n \o d : n \in RecognisedNames, d \in OctaveSuffixes} |->
     LET nd == CHOOSE nd \in RecognisedNames \X OctaveSuffixes : nd[1] \o nd[2] = p
     IN NamedIndex(nd[1], nd[2])]

IsRecognisedNote(p) == p \in DOMAIN RecognisedNotes

NoteIndex(p) == RecognisedNotes[p]

\* C7: the multi-hot row of a hyphen-joined chord label whose parts are all
\* recognised note names has a 1 at exactly the class indices of its parts
\* and 0 everywhere else; "C4-E4-G4" sets exactly {48, 52, 55}.
C7_ChordSetsEveryNote ==
  TrainReturned =>
    \A i \in 1..Len(labels_list) :
      LET s == labels_list[i].str
          parts == split(s, "-")
          row == train_result.multi_hot_labels[i]
      IN (/\ labels_list[i].type = "str"
          /\ contains(s, "-")
          /\ \A k \in 1..Len(parts) : IsRecognisedNote(parts[k])) =>
           /\ Ones(row) = {NoteIndex(parts[k]) : k \in 1..Len(parts)}
           /\ \A c \in 0..95 : row[c] \in {0, 1}
           /\ (s = <<"C","4","-","E","4","-","G","4">>) => Ones(row) = {48, 52, 55}

\* C7 witness: "C4-E4-G4" encoded with exactly {48, 52, 55} set
C7_Witness ==
  /\ OnlyStr(<<"C","4","-","E","4","-","G","4">>)
  /\ TrainReturned /\ Ones(train_result.multi_hot_labels[1]) = {48, 52, 55}

\* C8 as stated: a multi-hot row built from a note or chord string label has
\* exactly one index set, a row built from a key label has at most 8, and
\* every entry is 0 or 1.
C8_OneIndexPerString ==
  TrainReturned =>
    \A i \in 1..Len(labels_list) :
      LET row == train_result.multi_hot_labels[i]
      IN /\ labels_list[i].type = "str" => Cardinality(Ones(row)) = 1
         /\ labels_list[i].type = "dict" => Cardinality(Ones(row)) <= 8
         /\ \A c \in DOMAIN row : row[c] \in {0, 1}

\* the number of hyphen-separated parts of s
PartCount(s) == Cardinality({i \in 1..Len(s) : s[i] = "-"}) + 1

\* C8 amended: a multi-hot row built from a string label that is not a
\* hyphen-joined chord has exactly one index set, a row built from a
\* hyphen-joined chord label has at least one and at most one per part, a
\* row built from a key label has at most 8, and every entry is 0 or 1.
C8_RowCardinality ==
  TrainReturned =>
    \A i \in 1..Len(labels_list) :
      LET row == train_result.multi_hot_labels[i]
          s == labels_list[i].str
      IN /\ (labels_list[i].type = "str" /\ ~IsChordLabel(s))
              => Cardinality(Ones(row)) = 1
         /\ (labels_list[i].type = "str" /\ IsChordLabel(s))
              => Cardinality(Ones(row)) \in 1..PartCount(s)
         /\ labels_list[i].type = "dict" => Cardinality(Ones(row)) <= 8
         /\ \A c \in DOMAIN row : row[c] \in {0, 1}

\* C8 witness: a chord whose three notes are three set indices
C8_Witness ==
  /\ OnlyStr(<<"D","4","-","F","#","4","-","A","4">>)
  /\ TrainReturned
  /\ Cardinality(Ones(train_result.multi_hot_labels[1])) = 3

\* C9: a legacy chord token (letter, optional accidental, quality suffix) is
\* encoded by the one-hot encoder as the note of its letter and accidental at
\* octave 4, whatever the suffix.
C9_QualityIgnored ==
  EvalReturned =>
    \A l \in NoteLetters, a \in Accidentals, q \in Qualities :
      OnlyStr(<<l>> \o a \o q) =>
        eval_result.processed_labels[1]
          = ((Natural(l) + (IF a = <<"#">> THEN 1 ELSE IF a = <<"b">> THEN -1 ELSE 0))
               % 12) + 48

\* the token the one-hot encoder reads the pitch from: the first part of a
\* chord label, the whole label otherwise
PitchToken(s) == IF IsChordLabel(s) THEN Root(s) ELSE s

\* the positions after the letter that hold '#' or 'b'
AccidentalPositions(t) == {i \in 2..Len(t) : t[i] \in {"#", "b"}}

\* base semitone, raised by the first '#' or lowered by the first 'b'
ExpectedSemitone(t) ==
  IF AccidentalPositions(t) = {} THEN Natural(t[1])
  ELSE LET first == CHOOSE i \in AccidentalPositions(t) :
                      \A j \in AccidentalPositions(t) : i <= j
       IN IF t[first] = "#" THEN (Natural(t[1]) + 1) % 12
          ELSE (Natural(t[1]) - 1) % 12

\* C10: in the one-hot encoder the semitone of a token starting with a letter
\* in A..G is the letter's base value, raised by 1 if the first '#'/'b' after
\* the letter is '#' and lowered by 1 if it is 'b', modulo 12; the class
\* index is that semitone plus 12 times an octave in 0..7; "Cb4" gives
\* semitone 11 and "B#4" semitone 0, both at octave 4.
C10_SemitoneFromAccidental ==
  EvalReturned =>
    /\ \A i \in 1..Len(labels_list) :
         LET s == labels_list[i].str
             index == eval_result.processed_labels[i]
         IN (labels_list[i].type = "str" /\ s # << >> /\ s[1] \in NoteLetters) =>
              /\ ExpectedSemitone(PitchToken(s)) \in 0..11
              /\ \E octave \in 0..7 :
                   index = ExpectedSemitone(PitchToken(s)) + 12 * octave
    /\ OnlyStr(<<"C","b","4">>) => eval_result.processed_labels = <<59>>
    /\ OnlyStr(<<"B","#","4">>) => eval_result.processed_labels = <<48>>

\* C10 witness: "Cb4" encoded as semitone 11 at octave 4
C10_Witness ==
  /\ OnlyStr(<<"C","b","4">>)
  /\ EvalReturned /\ eval_result.processed_labels = <<59>>

\* the octave the digits of a token stand for: the first digit after the
\* first character, at most 7; 4 when there is none
ExpectedOctave(t) ==
  IF DigitPositions(t) = {} THEN 4
  ELSE LET first == CHOOSE i \in DigitPositions(t) :
                      \A j \in DigitPositions(t) : i <= j
       IN IF int(t[first]) > 7 THEN 7 ELSE int(t[first])

\* the note name a token is spelled with: its characters up to the first
\* that is neither a letter nor '#' nor 'b'
SpelledName(t) ==
  LET stops == {i \in 1..Len(t) : t[i] \notin AlphaChars \cup {"#", "b"}}
  IN IF stops = {} THEN t
     ELSE SubSeq(t, 1, (CHOOSE i \in stops : \A j \in stops : i <= j) - 1)

\* the hyphen-separated tokens of a chord label, the label itself otherwise
Tokens(s) ==
  IF IsChordLabel(s) THEN {split(s, "-")[k] : k \in 1..Len(split(s, "-"))}
  ELSE {s}

\* C11: the octave of a note token is the first decimal digit after its first
\* character, clamped into 0..7 (8 and 9 give 7, only the first digit of a
\* number counts), and 4 when the token has no digit.  The one-hot index of
\* a label starting with a letter in A..G lies in that octave of its pitch
\* token; the multi-hot indices of a label whose tokens are spelled with
\* recognised names lie in exactly the octaves of its tokens.
C11_OctaveFromFirstDigit ==
  /\ EvalReturned =>
       \A i \in 1..Len(labels_list) :
         LET s == labels_list[i].str
         IN (labels_list[i].type = "str" /\ s # << >> /\ s[1] \in NoteLetters) =>
              eval_result.processed_labels[i] \div 12
                = ExpectedOctave(PitchToken(s))
  /\ TrainReturned =>
       \A i \in 1..Len(labels_list) :
         LET s == labels_list[i].str
         IN (/\ labels_list[i].type = "str"
             /\ s # << >> /\ s[1] \in NoteLetters
             /\ \A t \in Tokens(s) : SpelledName(t) \in RecognisedNames) =>
              {c \div 12 : c \in Ones(train_result.multi_hot_labels[i])}
                = {ExpectedOctave(t) : t \in Tokens(s)}

\* C11 witness: "C94" encoded by both encoders at octave 7, semitone 0
C11_Witness ==
  /\ OnlyStr(<<"C","9","4">>)
  /\ EvalReturned /\ eval_result.processed_labels = <<84>>
  /\ TrainReturned /\ Ones(train_result.multi_hot_labels[1]) = {84}

\* the label is a key label {"key": K} with K a recognised key name
IsKeyLabel(label) ==
  label.type = "dict" /\ label.has_key /\ label.key \in RecognisedNames

\* C12: for a key label {"key": K} with K one of the 12 sharp spellings or
\* of the flat aliases Db, Eb, Gb, Ab, Bb, the multi-hot row holds 1 at
\* exactly the eight indices semitone(K) + 12*o, o = 0..7, and 0 elsewhere;
\* a flat alias yields the same row as its sharp equivalent.
C12_KeyRowAllOctaves ==
  TrainReturned =>
    /\ \A i \in 1..Len(labels_list) :
         IsKeyLabel(labels_list[i]) =>
           /\ Ones(train_result.multi_hot_labels[i])
                = {PitchClass(labels_list[i].key) + 12 * o : o \in 0..7}
           /\ \A c \in 0..95 : train_result.multi_hot_labels[i][c] \in {0, 1}
    /\ \A i, j \in 1..Len(labels_list) :
         (/\ IsKeyLabel(labels_list[i]) /\ IsKeyLabel(labels_list[j])
          /\ labels_list[i].key \in DOMAIN FlatAliases
          /\ labels_list[j].key = FlatAliases[labels_list[i].key]) =>
           train_result.multi_hot_labels[i] = train_result.multi_hot_labels[j]

\* C12 witness: {"key": "Db"} and {"key": "C#"} encoded as the same row,
\* semitone 1 in all eight octaves
C12_Witness ==
  /\ labels_list = <<DictLabel(<<"D","b">>), DictLabel(<<"C","#">>)>>
  /\ TrainReturned
  /\ Ones(train_result.multi_hot_labels[1]) = {1, 13, 25, 37, 49, 61, 73, 85}
  /\ train_result.multi_hot_labels[1] = train_result.multi_hot_labels[2]

\* the label resolves to no musical entity: a key label whose key is
\* "unknown" or no recognised name, a dict without 'key', or a value that is
\* neither a str nor a dict
Unresolvable(label) ==
  \/ label.type = "dict" /\ ~label.has_key
  \/ label.type = "dict" /\ label.has_key /\ label.key \notin RecognisedNames
  \/ label.type \notin {"str", "dict"}

\* C13: a label that cannot be resolved to a musical entity (a key label
\* whose key is "unknown" or not a recognised key name, a dict without a
\* "key" entry, a value that is neither a string nor a dict) is mapped by
\* both encoders to the single fallback class index 48 and to no other index.
C13_FallbackIs48 ==
  /\ EvalReturned =>
       \A i \in 1..Len(labels_list) :
         Unresolvable(labels_list[i]) => eval_result.processed_labels[i] = 48
  /\ TrainReturned =>
       \A i \in 1..Len(labels_list) :
         Unresolvable(labels_list[i]) =>
           Ones(train_result.multi_hot_labels[i]) = {48}

\* the list with its first label moved to the end
Rotate(l) == IF l = << >> THEN l ELSE Tail(l) \o << Head(l) >>

\* the list with its first two labels exchanged
SwapFirst(l) ==
  IF Len(l) < 2 THEN l ELSE << l[2], l[1] >> \o SubSeq(l, 3, Len(l))

\* C22: process_labels is a pure, order-independent function of its input:
\* the result has one row per label in input order; row i depends only on
\* label i, so it is the row the label gets in a call of its own, whatever
\* the iterations before it left in the matrix, in processed_labels and in
\* the local variables of the loop; and encoding a permutation of the list
\* (a rotation, an exchange of two labels) gives the same rows, permuted.
\* Rows that are the same for every set of values left behind are the same
\* in a second encoding of the list.  A call that raises, raises for every
\* rotation of the list.
C22_RowsDependOnOwnLabel ==
  /\ EvalReturned =>
       /\ Len(eval_result.one_hot_labels) = Len(labels_list)
       /\ \A i \in 1..Len(labels_list) :
            eval_result.one_hot_labels[i]
              = eval_process_labels(<< labels_list[i] >>).one_hot_labels[1]
       /\ eval_process_labels(Rotate(labels_list)).one_hot_labels
            = Rotate(eval_result.one_hot_labels)
       /\ eval_process_labels(SwapFirst(labels_list)).one_hot_labels
            = SwapFirst(eval_result.one_hot_labels)
  /\ TrainReturned =>
       /\ Len(train_result.multi_hot_labels) = Len(labels_list)
       /\ \A i \in 1..Len(labels_list) :
            train_result.multi_hot_labels[i]
              = train_process_labels(<< labels_list[i] >>).multi_hot_labels[1]
       /\ train_process_labels(Rotate(labels_list)).multi_hot_labels
            = Rotate(train_result.multi_hot_labels)
       /\ train_process_labels(SwapFirst(labels_list)).multi_hot_labels
            = SwapFirst(train_result.multi_hot_labels)
  /\ eval_result # Pending =>
       eval_process_labels(Rotate(labels_list)).status = eval_result.status
  /\ train_result # Pending =>
       train_process_labels(Rotate(labels_list)).status = train_result.status

\* C22 witness: a note without octave digit encoded after a key and a note
\* of octave 6, which leave octave 7 and octave 6 in the local variables:
\* its row is the one of octave 4
C22_Witness ==
  /\ labels_list
       = << DictLabel(<<"A">>), StrLabel(<<"D","6">>), StrLabel(<<"G">>) >>
  /\ TrainReturned
  /\ Ones(train_result.multi_hot_labels[2]) = {74}
  /\ Ones(train_result.multi_hot_labels[3]) = {55}
  /\ EvalReturned /\ eval_result.processed_labels = <<9, 74, 55>>

----------------------------------------------------------------------------
\* Properties of get_label_from_path

PathReturned == path_label.status = "returned"

\* the call has ended, with a label or with an exception
PathDone == path_label.status \in {"returned", "raised"}

\* the audio path is the file name f in the directory d
FileIn(d, f) == audio_path = d \o <<"/">> \o f

\* C14: get_label_from_path called with a label taxonomy outside
\* {note, chord, key_tuning} fails with an error propagated to the caller; it
\* does not return a default label such as "unknown".
C14_UnsupportedTaxonomyRaises ==
  (PathDone /\ label_type \notin {"note", "chord", "key_tuning"}) =>
    /\ path_label.status = "raised"
    /\ path_label.status # "returned"

\* the positions that bound the underscore-separated segments of f
Cuts(f) == {0, Len(f) + 1} \cup {i \in 1..Len(f) : f[i] = "_"}

\* the segment of f that starts after the cut a
SegmentAt(f, a) ==
  LET b == CHOOSE b \in Cuts(f) : b > a /\ \A c \in Cuts(f) : c > a => b <= c
      seg == SubSeq(f, a + 1, b - 1)
  IN IF endswith(seg, wav) THEN SubSeq(seg, 1, Len(seg) - 4) ELSE seg

\* the cuts that start a segment
Starts(f) == Cuts(f) \ {Len(f) + 1}

\* the segment starts with an uppercase letter in A..G
StartsWithLetter(seg) == seg # << >> /\ seg[1] \in NoteLetters

\* the segment is a letter in A..G followed by '#' or 'b' or by digits only
LooksLikeNote(seg) ==
  /\ Len(seg) >= 2
  /\ seg[1] \in NoteLetters
  /\ \/ seg[2] \in {"#", "b"}
     \/ \A i \in 2..Len(seg) : seg[i] \in DigitChars

\* the first segment of f among those starting at the cuts in S
FirstSegment(f, S) == SegmentAt(f, CHOOSE a \in S : \A c \in S : a <= c)

WithoutExtension(r) ==
  LET dots == {i \in 2..Len(r) : r[i] = "."}
  IN IF dots = {} THEN r
     ELSE SubSeq(r, 1, (CHOOSE i \in dots : \A j \in dots : j <= i) - 1)

\* C16: with taxonomy chord, for every base name that starts with "chord_"
\* the label is the text between that prefix and the next underscore (or,
\* when no underscore follows, the extension), whatever that text is and
\* whatever augmentation suffixes follow; chord_D4-G4_1.wav gives "D4-G4" and
\* chord_C4-E4-G4_1_pitch-1.wav gives "C4-E4-G4".
C16_ChordSegment ==
  (PathDone /\ label_type = "chord"
     /\ startswith(basename(audio_path), <<"c", "h", "o", "r", "d", "_">>)) =>
    LET f == basename(audio_path)
        rest == SubSeq(f, 7, Len(f))
        underscores == {i \in 1..Len(rest) : rest[i] = "_"}
    IN /\ PathReturned
       /\ path_label.label =
            IF underscores # {}
            THEN StrLabel(SubSeq(rest, 1,
                   (CHOOSE i \in underscores : \A j \in underscores : i <= j) - 1))
            ELSE StrLabel(WithoutExtension(rest))
       /\ f = <<"c", "h", "o", "r", "d", "_", "D", "4", "-", "G", "4", "_", "1", ".", "w", "a", "v">> => path_label.label = StrLabel(<<"D", "4", "-", "G", "4">>)
       /\ f = <<"c", "h", "o", "r", "d", "_", "C", "4", "-", "E", "4", "-", "G", "4", "_", "1", "_", "p", "i", "t", "c", "h", "-", "1", ".", "w", "a", "v">>
            => path_label.label = StrLabel(<<"C", "4", "-", "E", "4", "-", "G", "4">>)

----------------------------------------------------------------------------
\* Properties of get_top_notes and compare_predictions

TopReturned == top_result.status = "returned"

Compared == comparison.status = "returned"

\* the class index a note name stands for: pitch class of the name before
\* the octave digit, plus 12 times the octave
ClassOf(name) ==
  PitchClass(SubSeq(name, 1, Len(name) - 1)) + 12 * int(name[Len(name)])

\* the classes named in a list of notes
ClassesOf(notes) == {ClassOf(notes[k]) : k \in 1..Len(notes)}

\* C17: get_top_notes returns the n highest-scoring classes of a score vector
\* ordered by descending confidence, classes with equal confidence in
\* ascending class-index order (lower index first); a vector whose only
\* positive entry is at index 46 has ("A#3", that value) as its first result.
C17_TiesAscendingIndex ==
  TopReturned =>
    LET notes == top_result.top_notes
        conf == top_result.top_confidences
    IN /\ Len(notes) = top_result.n /\ Len(conf) = top_result.n
       /\ \A k \in 1..Len(notes) : conf[k] = tf_prediction[ClassOf(notes[k])]
       /\ \A k \in 1..Len(notes) :
            \A c \in (0..95) \ ClassesOf(notes) : tf_prediction[c] <= conf[k]
       /\ \A k \in 1..(Len(notes) - 1) :
            \/ conf[k] > conf[k + 1]
            \/ conf[k] = conf[k + 1] /\ ClassOf(notes[k]) < ClassOf(notes[k + 1])
       /\ (tf_prediction[46] > 0
             /\ \A c \in (0..95) \ {46} : tf_prediction[c] = 0) =>
            notes[1] = <<"A", "#", "3">> /\ conf[1] = tf_prediction[46]

\* every entry of the vector is the same
ZeroVariance(v) == \A c \in DOMAIN v : v[c] = v[0]

\* the correlation is 1: positive covariance whose square is the product of
\* the variances
IsOne(correlation) ==
  /\ ~correlation.nan
  /\ correlation.cov > 0
  /\ correlation.cov * correlation.cov = correlation.var_a * correlation.var_b

\* C18 as stated: for every score vector v, compare_predictions(v, v) yields
\* mae = 0, mse = 0, correlation = 1.0, overlap 5 (overlap_percentage 100)
\* and top_note_match = True.
C18_IdenticalCorrelationOne ==
  (Compared /\ tf_prediction = onnx_prediction) =>
    /\ comparison.mae.num = 0
    /\ comparison.mse.num = 0
    /\ IsOne(comparison.correlation)
    /\ comparison.overlap = 5 /\ comparison.overlap_percentage = 100
    /\ comparison.top_note_match

\* C18, amended: compare_predictions(v, v) yields mae = 0, mse = 0, overlap 5
\* (overlap_percentage 100) and top_note_match = True for every v; the
\* correlation is 1 if the entries of v are not all equal and NaN if they are.
C18_IdenticalVectors ==
  (Compared /\ tf_prediction = onnx_prediction) =>
    /\ comparison.mae.num = 0
    /\ comparison.mse.num = 0
    /\ IF ZeroVariance(tf_prediction) THEN comparison.correlation.nan
       ELSE IsOne(comparison.correlation)
    /\ comparison.overlap = 5 /\ comparison.overlap_percentage = 100
    /\ comparison.top_note_match

\* C18 witness: a vector with five distinct positive scores compared to itself
C18_Witness ==
  /\ tf_prediction = RampDown(0) /\ onnx_prediction = RampDown(0)
  /\ Compared
  /\ IsOne(comparison.correlation)
  /\ comparison.overlap = 5 /\ comparison.top_note_match

\* T is a set of five classes of v that no class outside it outscores
IsTopFive(T, v) ==
  /\ Cardinality(T) = 5
  /\ \A i \in T : \A j \in (0..95) \ T : v[j] <= v[i]

\* c is a class holding the highest score of v
IsTopClass(c, v) == \A j \in 0..95 : v[j] <= v[c]

\* C19: overlap is the size of the intersection of the two vectors' top-5
\* class-index sets, so 0 <= overlap <= 5 and overlap_percentage is
\* overlap / 5 * 100; top_note_match is true exactly when the highest-ranked
\* class is the same in both vectors; top_note_match implies overlap >= 1;
\* swapping the two arguments changes neither value.
C19_OverlapOfTopFive ==
  Compared =>
    LET tf_top == ClassesOf(comparison.tf_top_notes)
        onnx_top == ClassesOf(comparison.onnx_top_notes)
        tf_first == ClassOf(comparison.tf_top_notes[1])
        onnx_first == ClassOf(comparison.onnx_top_notes[1])
        swapped == compare_predictions(onnx_prediction, tf_prediction,
                                       argsort_ties)
    IN /\ IsTopFive(tf_top, tf_prediction)
       /\ IsTopFive(onnx_top, onnx_prediction)
       /\ IsTopClass(tf_first, tf_prediction)
       /\ IsTopClass(onnx_first, onnx_prediction)
       /\ comparison.overlap = Cardinality(tf_top \cap onnx_top)
       /\ comparison.overlap \in 0..5
       /\ comparison.overlap_percentage * 5 = comparison.overlap * 100
       /\ comparison.top_note_match <=> tf_first = onnx_first
       /\ comparison.top_note_match => comparison.overlap >= 1
       /\ swapped.overlap = comparison.overlap
       /\ swapped.top_note_match = comparison.top_note_match

\* C19 witness: the same five classes ranked in opposite orders: overlap 5,
\* different top notes
C19_Witness ==
  /\ tf_prediction = RampDown(0) /\ onnx_prediction = RampUp(0)
  /\ Compared
  /\ comparison.overlap = 5 /\ comparison.overlap_percentage = 100
  /\ ~comparison.top_note_match

\* C20: when either score vector has zero variance (all entries equal),
\* compare_predictions does not raise: the correlation is NaN, and mae, mse,
\* overlap and top_note_match are still returned.
C20_ZeroVarianceIsNaN ==
  (comparison # Pending
     /\ (ZeroVariance(tf_prediction) \/ ZeroVariance(onnx_prediction))) =>
    /\ comparison.status = "returned"
    /\ comparison.correlation.nan
    /\ comparison.mae.den = 96 /\ comparison.mse.den = 96
    /\ comparison.mae.num = 0 <=> tf_prediction = onnx_prediction
    /\ comparison.mse.num = 0 <=> tf_prediction = onnx_prediction
    /\ comparison.overlap \in 0..5
    /\ comparison.top_note_match \in BOOLEAN

\* C20 witness: five distinct scores compared with a constant vector
C20_Witness ==
  /\ tf_prediction = RampDown(0) /\ onnx_prediction = ConstantVector(1)
  /\ Compared
  /\ comparison.correlation.nan
  /\ comparison.mae.num > 0

----------------------------------------------------------------------------
\* Properties of the chord-detection test loop

\* the loop is between two files, the first test_pc.file - 1 files done
BetweenFiles == test_pc.at = "arm"

\* C21: every file yields exactly one result entry; for a file processed
\* without error overall_passed = model_passed OR chroma_passed, the three
\* flags recorded separately, model_passed true exactly when some expected
\* chord class has confidence strictly above the threshold; a file that
\* times out or raises records all three as False; so after any number of
\* files max(model_passed, chroma_passed) <= overall_passed <=
\* model_passed + chroma_passed and overall_passed <= number of entries.
C21_OneEntryPerFile ==
  (results # Pending /\ BetweenFiles) =>
    LET entries == results.chord_results
    IN /\ Len(entries) = test_pc.file - 1
       /\ \A k \in 1..Len(entries) :
            IF entries[k].error
            THEN /\ ~entries[k].model_passed
                 /\ ~entries[k].chroma_passed
                 /\ ~entries[k].overall_passed
            ELSE /\ entries[k].overall_passed
                      = (entries[k].model_passed \/ entries[k].chroma_passed)
                 /\ entries[k].model_passed
                      = (\E j \in 1..Len(chord_files[entries[k].file].confidences) :
                           chord_files[entries[k].file].confidences[j] > 3)
       /\ results.model_passed <= results.overall_passed
       /\ results.chroma_passed <= results.overall_passed
       /\ results.overall_passed <= results.model_passed + results.chroma_passed
       /\ results.overall_passed <= Len(entries)

\* C29: for every score vector, the note predict_audio_file reports (the
\* decoding of np.argmax of the vector) is the first entry get_top_notes
\* returns for the vector, also when several classes share the maximum score.
C29_PredictedNoteIsFirstTopNote ==
  TopReturned =>
    top_result.top_notes[1] = predicted_note(np_argmax(tf_prediction))

\* C30: the class indices improved_chord_focused_loss weighs higher as
\* C-major chord notes (C4, E4, G4) and as A-major chord notes (A3, C#4, E4,
\* A4) are exactly the class indices the training encoder sets for those
\* note names.
C30_LossMasksAreEncodedClasses ==
  TrainReturned =>
    /\ labels_list = <<StrLabel(<<"C","4","-","E","4","-","G","4">>)>> =>
         Ones(train_result.multi_hot_labels[1]) = c_major_mask
    /\ labels_list
         = <<StrLabel(<<"A","3","-","C","#","4","-","E","4","-","A","4">>)>> =>
         Ones(train_result.multi_hot_labels[1]) = a_major_mask

\* C28: apply_augmentation returns exactly the number of augmented files it
\* wrote (0 when it fails), so augmented_segments and total_segments of
\* processed_metadata.json are the numbers of augmented and of all segment
\* files process_files produced.
C28_AugmentedCountIsFilesWritten ==
  processed_metadata.status = "written" =>
       /\ \A f \in FailurePoints :
            LET augmented == apply_augmentation(
                               <<<<"train", "unknown">>, "x", 0>>,
                               <<"train", "unknown">>, f)
            IN augmented.returned = Cardinality(augmented.written)
       /\ processed_metadata.augmented_segments
            = Cardinality(written_files.augmented)
       /\ processed_metadata.total_segments
            = Cardinality(written_files.segments)
                + Cardinality(written_files.augmented)

\* C27: for every feature_type and every feature list and label list of
\* equal length loaded by load_data, also when some feature dictionaries lack
\* the requested key, X and y have the same number of rows and row i of y is
\* the encoding of the label of the sample in row i of X.
C27_RowsOfXAndYCorrespond ==
  dataset.status = "returned" =>
    /\ Len(dataset.X_train) = Len(dataset.y_train)
    /\ Len(dataset.X_val) = Len(dataset.y_val)
    /\ \A i \in 1..Len(dataset.X_train) :
         i <= Len(dataset.y_train)
           /\ dataset.y_train[i]
                = train_label(dataset.train_labels[dataset.X_train[i].sample]).row
    /\ \A i \in 1..Len(dataset.X_val) :
         i <= Len(dataset.y_val)
           /\ dataset.y_val[i]
                = train_label(dataset.val_labels[dataset.X_val[i].sample]).row

\* the process of the current run has ended
Exited == extraction.pc \in Ended

\* a checkpoint exists when the call of process_directory starts, and the
\* call has left its checkpoint block: checkpoint.json is readable, and
\* neither features.pkl nor labels.pkl is a file whose loading fails
CheckpointAtStart ==
  /\ extraction.past_load
  /\ extraction.at_start.checkpoint.state = "ok"
  /\ extraction.at_start.features.state # "unreadable"
  /\ extraction.at_start.labels.state # "unreadable"

\* s begins with p
IsPrefix(p, s) == Len(p) <= Len(s) /\ SubSeq(s, 1, Len(p)) = p

\* the entries of s after its first n
After(s, n) == {s[k] : k \in (n + 1)..Len(s)}

\* the number of times f occurs in s
Occurrences(f, s) == Cardinality({k \in 1..Len(s) : s[k] = f})

\* C23: when SIGINT arrives while the script, started through main, is
\* processing files, a checkpoint with every file processed so far, its
\* features and its label is saved before the process exits, and the exit
\* status is 1.
C23_InterruptSavesCheckpointExitsOne ==
  (Exited /\ extraction.interrupted /\ extraction.entry = "main") =>
    /\ extraction.exit_status = 1
    /\ output_dir.checkpoint = Dumped(extraction.processed_files)
    /\ output_dir.features = Dumped(extraction.features_list)
    /\ output_dir.labels = Dumped(extraction.labels_list)

\* C24: when process_directory starts and a checkpoint exists, every file
\* listed in its processed_files is left out of the extraction of that run,
\* and the features and labels saved with it are loaded and extended by the
\* newly processed files, not discarded.  The checkpoint is a readable
\* checkpoint.json with the features.pkl and labels.pkl found beside it, and
\* the run is looked at from the end of its checkpoint block on.
C24_CheckpointResumed ==
  CheckpointAtStart =>
    LET listed == extraction.at_start.checkpoint.value
        saved_features == extraction.at_start.features.value
        saved_labels == extraction.at_start.labels.value
    IN /\ \A k \in 1..Len(extraction.files_to_process) :
            extraction.files_to_process[k] \notin listed
       /\ IsPrefix(saved_features, extraction.features_list)
       /\ IsPrefix(saved_labels, extraction.labels_list)
       /\ After(extraction.features_list, Len(saved_features)) \cap listed = {}
       /\ After(extraction.labels_list, Len(saved_labels)) \cap listed = {}
       /\ (Exited /\ ~extraction.interrupted) =>
            /\ output_dir.features = Dumped(extraction.features_list)
            /\ output_dir.labels = Dumped(extraction.labels_list)

\* C25: if loading the checkpoint fails at any step (unreadable
\* checkpoint.json, features.pkl or labels.pkl), process_directory starts from
\* scratch: before the first file is processed the processed-file set, the
\* feature list and the label list are all empty.
C25_FailedLoadStartsFromScratch ==
  (/\ extraction.pc = "filter"
   /\ extraction.at_start.checkpoint.state # "absent"
   /\ \/ extraction.at_start.checkpoint.state = "unreadable"
      \/ /\ extraction.at_start.features.state # "absent"
         /\ extraction.at_start.labels.state # "absent"
         /\ \/ extraction.at_start.features.state = "unreadable"
            \/ extraction.at_start.labels.state = "unreadable") =>
    /\ extraction.processed_files = {}
    /\ extraction.features_list = << >>
    /\ extraction.labels_list = << >>

\* C26: after any sequence of completed or interrupted runs over the same
\* input and output directories, the saved features and labels contain each
\* successfully extracted file exactly once; running again after a completed
\* run adds no entries.
C26_EachFileSavedOnce ==
  Exited =>
    /\ output_dir.features.state = "ok" =>
         \A f \in 1..Len(audio_files) :
           Occurrences(f, output_dir.features.value) <= 1
    /\ output_dir.labels.state = "ok" =>
         \A f \in 1..Len(audio_files) :
           Occurrences(f, output_dir.labels.value) <= 1
    /\ ~extraction.interrupted =>
         \A f \in 1..Len(audio_files) :
           audio_files[f] = "ok" =>
             /\ Occurrences(f, output_dir.features.value) = 1
             /\ Occurrences(f, output_dir.labels.value) = 1

====
